---- MODULE Spec2Model ----
(***************************************************************************)
(* Metadata extraction and classification engine of the letter archive     *)
(* (app/services/metadata.py, app/routers/upload.py).                      *)
(*                                                                         *)
(* Texts are strings; a character is a string of length 1, read with       *)
(* SubSeq.  Every regular expression of the source is translated into an   *)
(* operator that computes the match Python's re module finds (leftmost,    *)
(* greedy, backtracking).  Floating-point confidences are kept as integer  *)
(* hundredths (0.85 is 85).  Python's None is the string NONE for text     *)
(* values and NoInt for integers.                                          *)
(***************************************************************************)
EXTENDS Integers, Sequences, FiniteSets, TLC

VARIABLES
    text,      \* the text handed to the operation
    filename,  \* the filename hint, or NONE
    aux,       \* the remaining arguments / collaborators of the operation
    pc,        \* position of the handler
    result,    \* what the operation returned
    calls      \* functions the handler has invoked, in order

vars == <<text, filename, aux, pc, result, calls>>

NONE == "<None>"

(***************************************************************************)
(* Characters and string primitives (Python str / re building blocks)      *)
(***************************************************************************)
Ch(s, i) == IF i >= 1 /\ i <= Len(s) THEN SubSeq(s, i, i) ELSE ""

DIGIT == {"0", "1", "2", "3", "4", "5", "6", "7", "8", "9"}

UPPER == {"A", "B", "C", "D", "E", "F", "G", "H", "I", "J", "K", "L", "M",
          "N", "O", "P", "Q", "R", "S", "T", "U", "V", "W", "X", "Y", "Z"}

LOWER == {"a", "b", "c", "d", "e", "f", "g", "h", "i", "j", "k", "l", "m",
          "n", "o", "p", "q", "r", "s", "t", "u", "v", "w", "x", "y", "z"}

ALNUM == DIGIT \cup UPPER \cup LOWER

\* \w of the re module (ASCII part)
WORD == ALNUM \cup {"_"}

\* \s of the re module, and what str.strip() removes
WS == {" ", "\t", "\n", "\r", "\f"}

MinOf(S) == CHOOSE x \in S : \A y \in S : x <= y

MaxOf(S) == CHOOSE x \in S : \A y \in S : x >= y

\* s[from-1:]
From(s, i) == SubSeq(s, i, Len(s))

\* p matches s at position i
At(s, i, p) == i >= 1 /\ i + Len(p) - 1 <= Len(s) /\ SubSeq(s, i, i + Len(p) - 1) = p

\* str.find: first position >= from where p occurs, 0 when there is none
Find(s, p, from) ==
    LET hits == {i \in from..(Len(s) - Len(p) + 1) : At(s, i, p)}
    IN  IF hits = {} THEN 0 ELSE MinOf(hits)

\* p in s
Contains(s, p) == \E i \in 1..(Len(s) - Len(p) + 1) : At(s, i, p)

\* end of the greedy run of characters of class C that starts at i (first
\* position not in the run)
RECURSIVE Skip(_, _, _)
Skip(s, i, C) == IF i <= Len(s) /\ Ch(s, i) \in C THEN Skip(s, i + 1, C) ELSE i

\* str.replace(old, new): left to right, non-overlapping, one pass
RECURSIVE Replace(_, _, _)
Replace(s, old, new) ==
    LET i == Find(s, old, 1)
    IN  IF i = 0 THEN s
        ELSE SubSeq(s, 1, i - 1) \o new \o Replace(From(s, i + Len(old)), old, new)

\* str.strip(chars)
LStrip(s, C) == From(s, Skip(s, 1, C))

RECURSIVE RSkip(_, _, _)
RSkip(s, i, C) == IF i >= 1 /\ Ch(s, i) \in C THEN RSkip(s, i - 1, C) ELSE i

RStrip(s, C) == SubSeq(s, 1, RSkip(s, Len(s), C))

Strip(s, C) == LStrip(RStrip(s, C), C)

\* \b at the gap before position i
WordBoundary(s, i) == (Ch(s, i - 1) \in WORD) # (Ch(s, i) \in WORD)

(***************************************************************************)
(* _clean_text (metadata.py 68-97)                                         *)
(***************************************************************************)
\* the ordered literal replacements of the OCR-error table
CleanReplacements ==
    << <<"/-", "-">>, <<"I/", "/">>, <<"|/", "/">>, <<"\\ /", "">>,
       <<"OS '/", "05 /">>, <<"OB '/", "08 /">>, <<"OI '/", "01 /">>,
       <<"O5 '/", "05 /">> >>

RECURSIVE ApplyReplacements(_, _, _)
ApplyReplacements(s, table, k) ==
    IF k > Len(table) THEN s
    ELSE ApplyReplacements(Replace(s, table[k][1], table[k][2]), table, k + 1)

\* re.sub(r'(\d)\\\s*/', r'\1/', t), applied from position from
RECURSIVE SubDigitBackslash(_, _)
SubDigitBackslash(s, from) ==
    LET hits == {i \in from..Len(s) :
                    /\ Ch(s, i) \in DIGIT
                    /\ Ch(s, i + 1) = "\\"
                    /\ Ch(s, Skip(s, i + 2, WS)) = "/"}
    IN  IF hits = {} THEN From(s, from)
        ELSE LET i == MinOf(hits)
                 e == Skip(s, i + 2, WS)
             IN  SubSeq(s, from, i) \o "/" \o SubDigitBackslash(s, e + 1)

\* re.sub(r"(\d{2,3})\s*'\s*/", r"\1 /", t), applied from position from
RECURSIVE SubApostrophe(_, _)
SubApostrophe(s, from) ==
    LET nd(i) == IF Skip(s, i, DIGIT) - i >= 3 THEN 3 ELSE Skip(s, i, DIGIT) - i
        q(i)  == Skip(s, i + nd(i), WS)
        e(i)  == Skip(s, q(i) + 1, WS)
        hits  == {i \in from..Len(s) :
                    /\ nd(i) >= 2
                    /\ Ch(s, q(i)) = "'"
                    /\ Ch(s, e(i)) = "/"}
    IN  IF hits = {} THEN From(s, from)
        ELSE LET i == MinOf(hits)
             IN  SubSeq(s, from, i + nd(i) - 1) \o " /" \o SubApostrophe(s, e(i) + 1)

\* fix_nomor: O -> 0 and l -> 1 inside one match
FixNomor(m) == Replace(Replace(m, "O", "0"), "l", "1")

\* end (last position) of the match of
\*   \b[A-Z0-9Ol]{1,8}[\-\/\.][A-Z0-9Ol\.\-\/]{2,}\b   (IGNORECASE)
\* that starts at i, 0 when there is none
NomorShapeEnd(s, i) ==
    LET a    == Skip(s, i, ALNUM)
        tail == Skip(s, a + 1, ALNUM \cup {".", "-", "/"})
        ends == {e \in (a + 2)..(tail - 1) : WordBoundary(s, e + 1)}
    IN  IF /\ Ch(s, i) \in ALNUM
           /\ WordBoundary(s, i)
           /\ a - i <= 8
           /\ Ch(s, a) \in {"-", "/", "."}
           /\ ends # {}
        THEN MaxOf(ends) ELSE 0

\* re.sub(<number shape>, fix_nomor, t, flags=re.IGNORECASE)
RECURSIVE SubFixNomor(_, _)
SubFixNomor(s, from) ==
    LET hits == {i \in from..Len(s) : NomorShapeEnd(s, i) # 0}
    IN  IF hits = {} THEN From(s, from)
        ELSE LET i == MinOf(hits)
                 e == NomorShapeEnd(s, i)
             IN  SubSeq(s, from, i - 1) \o FixNomor(SubSeq(s, i, e))
                    \o SubFixNomor(s, e + 1)

\* re.sub(r"[ \t]+", " ", t)
RECURSIVE CollapseBlanks(_, _)
CollapseBlanks(s, from) ==
    LET hits == {i \in from..Len(s) : Ch(s, i) \in {" ", "\t"}}
    IN  IF hits = {} THEN From(s, from)
        ELSE LET i == MinOf(hits)
             IN  SubSeq(s, from, i - 1) \o " "
                    \o CollapseBlanks(s, Skip(s, i, {" ", "\t"}))

\* re.sub(r"\n\s*\n\s*\n+", "\n\n", t): a newline that opens a whitespace
\* run holding three newlines or more is replaced, up to the last newline
\* of the run, by two newlines
RECURSIVE CollapseNewlines(_, _)
CollapseNewlines(s, from) ==
    LET nls(i) == {j \in i..(Skip(s, i, WS) - 1) : Ch(s, j) = "\n"}
        hits   == {i \in from..Len(s) : Ch(s, i) = "\n" /\ Cardinality(nls(i)) >= 3}
    IN  IF hits = {} THEN From(s, from)
        ELSE LET i == MinOf(hits)
             IN  SubSeq(s, from, i - 1) \o "\n\n"
                    \o CollapseNewlines(s, MaxOf(nls(i)) + 1)

_clean_text(t) ==
    IF t = "" THEN ""
    ELSE LET t1 == ApplyReplacements(t, CleanReplacements, 1)
             t2 == SubDigitBackslash(t1, 1)
             t3 == SubApostrophe(t2, 1)
             t4 == SubFixNomor(t3, 1)
             t5 == CollapseBlanks(t4, 1)
             t6 == CollapseNewlines(t5, 1)
         IN  Strip(t6, WS)

(***************************************************************************)
(* Case mapping and line handling (str.lower, str.upper, str.title,        *)
(* str.splitlines, str.split)                                              *)
(***************************************************************************)
LowerStr == "abcdefghijklmnopqrstuvwxyz"

UpperStr == "ABCDEFGHIJKLMNOPQRSTUVWXYZ"

ToLower == [c \in UPPER |-> Ch(LowerStr, CHOOSE k \in 1..Len(UpperStr) : Ch(UpperStr, k) = c)]

ToUpper == [c \in LOWER |-> Ch(UpperStr, CHOOSE k \in 1..Len(LowerStr) : Ch(LowerStr, k) = c)]

\* s with every character in DOMAIN f replaced by its image
RECURSIVE MapChars(_, _)
MapChars(s, f) ==
    IF Len(s) = 0 THEN ""
    ELSE IF Len(s) = 1 THEN (IF s \in DOMAIN f THEN f[s] ELSE s)
    ELSE LET h == Len(s) \div 2
         IN  MapChars(SubSeq(s, 1, h), f) \o MapChars(SubSeq(s, h + 1, Len(s)), f)

Lower(s) == MapChars(s, ToLower)

Upper(s) == MapChars(s, ToUpper)

\* str.isupper(): a cased character exists and none is lower case
IsUpper(s) ==
    /\ \E i \in 1..Len(s) : Ch(s, i) \in UPPER
    /\ \A i \in 1..Len(s) : Ch(s, i) \notin LOWER

\* str.title() of s[a..b]: a letter that follows a letter is lowered, any
\* other letter is raised
RECURSIVE TitleRange(_, _, _)
TitleRange(s, a, b) ==
    IF a > b THEN ""
    ELSE IF a = b
         THEN (IF Ch(s, a - 1) \in UPPER \cup LOWER
               THEN Lower(Ch(s, a)) ELSE Upper(Ch(s, a)))
    ELSE LET h == (a + b) \div 2
         IN  TitleRange(s, a, h) \o TitleRange(s, h + 1, b)

\* first position >= i holding a character of C, Len(s)+1 when there is none
SkipTo(s, i, C) ==
    LET hits == {j \in i..Len(s) : Ch(s, j) \in C}
    IN  IF hits = {} THEN Len(s) + 1 ELSE MinOf(hits)

\* str.splitlines() (the texts of this model break lines with "\n" only)
RECURSIVE SplitLines(_)
SplitLines(s) ==
    IF s = "" THEN <<>>
    ELSE LET i == Find(s, "\n", 1)
         IN  IF i = 0 THEN <<s>>
             ELSE <<SubSeq(s, 1, i - 1)>> \o SplitLines(From(s, i + 1))

\* str.split(): the whitespace-separated tokens
RECURSIVE SplitTokens(_)
SplitTokens(s) ==
    LET a == Skip(s, 1, WS)
        b == SkipTo(s, a, WS)
    IN  IF a > Len(s) THEN <<>>
        ELSE <<SubSeq(s, a, b - 1)>> \o SplitTokens(From(s, b))

\* [ln.strip() for ln in lines], and the same keeping the non-blank only
\* s[:n]
Prefix(s, n) == SubSeq(s, 1, IF n < Len(s) THEN n ELSE Len(s))

\* sep.join(lines)
RECURSIVE Join(_, _)
Join(lines, sep) ==
    IF lines = <<>> THEN ""
    ELSE IF Len(lines) = 1 THEN lines[1]
    ELSE lines[1] \o sep \o Join(Tail(lines), sep)

StripAll(lines) == [i \in 1..Len(lines) |-> Strip(lines[i], WS)]

NonBlank(lines) == SelectSeq(StripAll(lines), LAMBDA l : l # "")

(***************************************************************************)
(* Label-block extractor (metadata.py 100-263)                             *)
(***************************************************************************)
LABEL_ALIASES ==
    [nomor |-> {"nomor", "no", "nomer", "nemor"},
     perihal |-> {"perihal", "hal"},
     lampiran |-> {"lampiran"},
     sifat |-> {"sifat"}]

\* re.sub(r"\s+", " ", value)
RECURSIVE CollapseWs(_, _)
CollapseWs(s, from) ==
    LET i == SkipTo(s, from, WS)
    IN  IF i > Len(s) THEN From(s, from)
        ELSE SubSeq(s, from, i - 1) \o " " \o CollapseWs(s, Skip(s, i, WS))

_normalize_line(value) ==
    IF value = NONE \/ value = "" THEN NONE
    ELSE LET cleaned == Strip(CollapseWs(value, 1), {" ", ":", "-"})
         IN  IF cleaned = "" THEN NONE
             ELSE IF IsUpper(cleaned) THEN TitleRange(cleaned, 1, Len(cleaned))
             ELSE cleaned

_is_label_line(line) ==
    LET colon      == Find(line, ":", 1)
        label_part == IF colon # 0 THEN SubSeq(line, 1, colon - 1) ELSE line
        lowered    == Strip(Lower(label_part), {" ", ":", ".", "-"})
        keys       == {k \in DOMAIN LABEL_ALIASES : lowered \in LABEL_ALIASES[k]}
    IN  IF keys = {} THEN NONE ELSE CHOOSE k \in keys : TRUE

NomorBlacklist ==
    {"sifat", "biasa", "penting", "segera", "rahasia", "lampiran", "hal",
     "perihal", "kepada", "yth", "tanggal", "tembusan", "dari"}

_filtered_label_value(value, label_key) ==
    IF value = NONE \/ value = "" THEN NONE
    ELSE IF label_key # "nomor" THEN value
    ELSE IF Strip(Lower(value), WS) \in NomorBlacklist THEN NONE
    \* re.search(r"\d+[/\-][A-Za-z0-9]", value)
    ELSE IF ~ \E i \in 1..Len(value) :
                /\ Ch(value, i) \in DIGIT
                /\ Ch(value, i + 1) \in {"/", "-"}
                /\ Ch(value, i + 2) \in ALNUM THEN NONE
    \* re.match(r"^\d", value)
    ELSE IF Ch(value, 1) \notin DIGIT THEN NONE
    ELSE value

\* re.match(r"(?i)^(kepada|yth|dengan|sehubungan)", line)
IsRecipientStart(line) ==
    \E w \in {"kepada", "yth", "dengan", "sehubungan"} : At(Lower(line), 1, w)

\* the continuation lines of a perihal value that starts on line base:
\* up to four further lines, until a blank line, a label or a recipient
\* marker; each is returned with the joining space in front
RECURSIVE PerihalContinuation(_, _, _)
PerihalContinuation(lines, base, offset) ==
    IF offset > 4 \/ base + offset > Len(lines) THEN ""
    ELSE LET next_line == Strip(lines[base + offset], WS)
         IN  IF \/ next_line = ""
                \/ _is_label_line(next_line) # NONE
                \/ IsRecipientStart(next_line)
             THEN ""
             ELSE " " \o next_line \o PerihalContinuation(lines, base, offset + 1)

\* value.split()[0]
FirstToken(value) == LET a == Skip(value, 1, WS) IN SubSeq(value, a, SkipTo(value, a, WS) - 1)

\* Priority 2 of _find_label_value: the value on one of the next two lines
RECURSIVE NextLineValue(_, _, _, _)
NextLineValue(lines, idx, label_key, offset) ==
    IF offset > 2 \/ idx + offset > Len(lines) THEN NONE
    ELSE LET read(candidate, value) ==
                 IF candidate = "" THEN NextLineValue(lines, idx, label_key, offset + 1)
                 ELSE IF _is_label_line(candidate) # NONE THEN NONE
                 ELSE IF Ch(candidate, 1) = ":"
                      THEN IF label_key = "perihal" /\ value # ""
                           THEN _filtered_label_value(
                                    _normalize_line(
                                        value \o PerihalContinuation(lines, idx + offset, 1)),
                                    label_key)
                           ELSE IF label_key = "nomor" /\ value # ""
                           THEN _filtered_label_value(FirstToken(value), label_key)
                           ELSE _filtered_label_value(_normalize_line(value), label_key)
                 ELSE _filtered_label_value(_normalize_line(candidate), label_key)
             line(candidate) == read(candidate, Strip(From(candidate, 2), WS))
         IN  line(Strip(lines[idx + offset], WS))

_find_label_value(lines, idx, label_key) ==
    LET same_line(value, first) ==
            IF value # "" /\ label_key = "perihal"
            THEN _filtered_label_value(
                     _normalize_line(value \o PerihalContinuation(lines, idx, 1)), label_key)
            ELSE IF value # "" /\ label_key = "nomor" /\ first # NONE THEN first
            ELSE IF value # "" /\ label_key # "nomor"
            THEN _filtered_label_value(_normalize_line(value), label_key)
            ELSE NextLineValue(lines, idx, label_key, 1)
        after(value) == same_line(value, _filtered_label_value(FirstToken(value), label_key))
        split(current, colon) ==
            after(IF colon = 0 THEN "" ELSE Strip(From(current, colon + 1), WS))
    IN  split(lines[idx], Find(lines[idx], ":", 1))

\* values[label_key] of extract_label_block_values: the value of the last
\* line carrying that label for which a value was found, NONE without one
LabelValue(lines, label_key) ==
    LET last(found) ==
            IF found = {} THEN NONE ELSE _find_label_value(lines, MaxOf(found), label_key)
    IN  last({i \in 1..Len(lines) :
                 /\ _is_label_line(lines[i]) = label_key
                 /\ _find_label_value(lines, i, label_key) # NONE})

extract_label_block_values(t) ==
    LET lines == NonBlank(SplitLines(t))
    IN  [k \in DOMAIN LABEL_ALIASES |-> LabelValue(lines, k)]

(***************************************************************************)
(* Number extractor (metadata.py 465-595)                                  *)
(***************************************************************************)
\* The OCR pre-replacements shared by extract_nomor_surat and
\* extract_perihal.  quote_map, applied before them, maps six non-ASCII
\* quote characters and the grave accent to a space; a TLA+ string holds
\* none of these, so on the texts of this model the translation changes
\* nothing.
PreReplacements ==
    << <<"OS  /", "05 /">>, <<"OB  /", "08 /">>, <<"OI  /", "01 /">>,
       <<"OS /", "05 /">>, <<"OB /", "08 /">>, <<"OI /", "01 /">> >>

PreClean(t) == _clean_text(ApplyReplacements(t, PreReplacements, 1))

SEP == {"/", "-"}

\* [A-Za-z0-9./\-]
NUMCH == ALNUM \cup {".", "/", "-"}

\* re.match(r"^\d{1,2}[-/]\d{1,2}[-/]\d{2,4}$", s)
IsDateLike(s) ==
    LET a == Skip(s, 1, DIGIT)
        b == Skip(s, a + 1, DIGIT)
        c == Skip(s, b + 1, DIGIT)
    IN  /\ a - 1 \in 1..2 /\ Ch(s, a) \in SEP
        /\ b - (a + 1) \in 1..2 /\ Ch(s, b) \in SEP
        /\ c - (b + 1) \in 2..4 /\ c = Len(s) + 1

\* end (first position after) of \d+[/\-][A-Za-z0-9./\-]{least,} at g, 0
\* without a match
NumberEnd(s, g, least) ==
    LET d == Skip(s, g, DIGIT)
        e == Skip(s, d + 1, NUMCH)
    IN  IF d > g /\ Ch(s, d) \in SEP /\ e - (d + 1) >= least THEN e ELSE 0

\* position after \s*[:.]?\s* read from p
AfterLabel(s, p) ==
    LET a == Skip(s, p, WS)
    IN  Skip(s, IF Ch(s, a) \in {":", "."} THEN a + 1 ELSE a, WS)

\* group 2 of patterns[k] of Priority 2 when the text after the label
\* alternative starts at p; NONE without a match.  T is the text.
AfterLabelGroup(T, k, p) ==
    LET group(g) ==
        CASE k = 1 ->   \* (e-\d+[/\-][A-Za-z0-9./\-]+)
             LET e == NumberEnd(T, g + 2, 1)
             IN  IF Ch(T, g) \in {"e", "E"} /\ Ch(T, g + 1) = "-" /\ e # 0
                 THEN SubSeq(T, g, e - 1) ELSE NONE
          [] k = 2 ->   \* (\d+[/\-][A-Za-z0-9./\-]+)
             LET e == NumberEnd(T, g, 1)
             IN  IF e # 0 THEN SubSeq(T, g, e - 1) ELSE NONE
          [] k = 3 ->   \* (\d+\s+[/\-][A-Za-z0-9./\-]+)
             LET d == Skip(T, g, DIGIT)
                 w == Skip(T, d, WS)
                 e == Skip(T, w + 1, NUMCH)
             IN  IF d > g /\ w > d /\ Ch(T, w) \in SEP /\ e > w + 1
                 THEN SubSeq(T, g, e - 1) ELSE NONE
          [] k = 4 ->   \* \s*\n\s*[:.]?\s*(\d+[/\-][A-Za-z0-9./\-]+)
             LET a == Skip(T, p, WS)
                 h == AfterLabel(T, a)
                 e == NumberEnd(T, h, 1)
             IN  IF (\E j \in p..(a - 1) : Ch(T, j) = "\n") /\ e # 0
                 THEN SubSeq(T, h, e - 1) ELSE NONE
          [] k = 5 ->   \* ([A-Z]{1,2}\s*['\\/]\s*[A-Z]{2}\.[0-9.]+), IGNORECASE
             LET run == Skip(T, g, UPPER \cup LOWER) - g
                 n   == IF run >= 2 THEN 2 ELSE run
                 q   == Skip(T, g + n, WS)
                 r   == Skip(T, q + 1, WS)
                 e   == Skip(T, r + 3, DIGIT \cup {"."})
             IN  IF /\ n >= 1 /\ Ch(T, q) \in {"'", "\\", "/"}
                    /\ Ch(T, r) \in UPPER \cup LOWER
                    /\ Ch(T, r + 1) \in UPPER \cup LOWER
                    /\ Ch(T, r + 2) = "." /\ e > r + 3
                 THEN SubSeq(T, g, e - 1) ELSE NONE
    IN  group(AfterLabel(T, p))

\* the label alternatives of patterns[1..5], in the order the regex tries them
LabelAlternatives ==
    << <<"nomor", "no", "nomer", "nemor">>, <<"nomor", "no", "nomer", "nemor">>,
       <<"nomor", "no", "nomer", "nemor">>, <<"nomor", "no">>,
       <<"nomor", "no", "nomer">> >>

\* group 2 of the match of patterns[k] (k in 1..5) that starts at i
LabelledGroupAt(T, TL, k, i) ==
    LET alts == LabelAlternatives[k]
        first(ok) ==
            IF WordBoundary(T, i) /\ Ch(TL, i) = "n" /\ ok # {}
            THEN AfterLabelGroup(T, k, i + Len(alts[MinOf(ok)]))
            ELSE NONE
    IN  first({a \in 1..Len(alts) :
                  At(TL, i, alts[a]) /\ AfterLabelGroup(T, k, i + Len(alts[a])) # NONE})

\* group 2 of patterns[6] = \b(\d{2,3})\s*[/\-]\s*([A-Z]{2}\.[0-9.]+)\b at i
StandaloneGroupAt(T, i) ==
    LET d    == Skip(T, i, DIGIT)
        q    == Skip(T, d, WS)
        r    == Skip(T, q + 1, WS)
        tail == Skip(T, r + 3, DIGIT \cup {"."})
        ends == {e \in (r + 3)..(tail - 1) : WordBoundary(T, e + 1)}
    IN  IF /\ Ch(T, i) \in DIGIT /\ WordBoundary(T, i)
           /\ d - i \in 2..3 /\ Ch(T, q) \in SEP
           /\ Ch(T, r) \in UPPER /\ Ch(T, r + 1) \in UPPER /\ Ch(T, r + 2) = "."
           /\ ends # {}
        THEN SubSeq(T, r, MaxOf(ends)) ELSE NONE

\* m.group(2) of re.search(patterns[k], T), NONE without a match
PatternGroup(T, TL, k) ==
    LET grp(i) == IF k = 6 THEN StandaloneGroupAt(T, i) ELSE LabelledGroupAt(T, TL, k, i)
        leftmost(hits) == IF hits = {} THEN NONE ELSE grp(MinOf(hits))
    IN  leftmost({i \in 1..Len(T) : grp(i) # NONE})

\* re.sub(r'(\d+)\s+([/\-])', r'\1\2', nomor)
RECURSIVE JoinDigitsSep(_, _)
JoinDigitsSep(s, from) ==
    LET hits == {i \in from..Len(s) :
                    /\ Ch(s, i) \in DIGIT /\ Ch(s, i + 1) \in WS
                    /\ Ch(s, Skip(s, i + 1, WS)) \in SEP}
    IN  IF hits = {} THEN From(s, from)
        ELSE LET i == MinOf(hits)
             IN  SubSeq(s, from, i) \o JoinDigitsSep(s, Skip(s, i + 1, WS))

\* the weight-95 candidates: one per pattern that matches, in pattern order
RECURSIVE PatternCandidates(_, _, _)
PatternCandidates(T, TL, k) ==
    IF k > 6 THEN <<>>
    ELSE LET accept(g, nomor) ==
                 IF g # NONE /\ Len(nomor) > 3 /\ ~IsDateLike(nomor)
                 THEN << <<nomor, 95>> >> ELSE <<>>
             cand(g) ==
                 accept(g, JoinDigitsSep(Strip(Strip(g, WS), {".", ",", ";", ":", " "}), 1))
         IN  cand(PatternGroup(T, TL, k)) \o PatternCandidates(T, TL, k + 1)

\* the weight-100 candidate of the label block
LabelCandidates(T) ==
    LET accept(nomor_value, v) ==
            IF /\ nomor_value # NONE
               /\ Len(v) > 3
               /\ \E i \in 1..Len(v) : Ch(v, i) \in DIGIT
               /\ \E i \in 1..Len(v) : Ch(v, i) \in {"/", "-", "."}
            THEN << <<v, 100>> >> ELSE <<>>
        cand(nomor_value) ==
            accept(nomor_value,
                   Strip(Strip(LStrip(nomor_value, {":", "-"} \cup WS), WS),
                         {".", ",", ";", ":", " "}))
    IN  cand(extract_label_block_values(T).nomor)

\* tokens of one header line that look like a number and not like a date
RECURSIVE TokenCandidates(_, _, _)
TokenCandidates(tokens, k, conf) ==
    IF k > Len(tokens) THEN <<>>
    ELSE (IF NumberEnd(tokens[k], 1, 2) = Len(tokens[k]) + 1 /\ ~IsDateLike(tokens[k])
          THEN << <<Strip(tokens[k], {".", ",", ";"}), conf>> >> ELSE <<>>)
         \o TokenCandidates(tokens, k + 1, conf)

\* re.search(r'(\d{2,3})\s+/\s+([A-Z]{2}\.\d{2}\.\d{2})', l) as "g1/g2"
MultiTokenCandidate(l, conf) ==
    LET nd(i) == IF Skip(l, i, DIGIT) - i >= 3 THEN 3 ELSE Skip(l, i, DIGIT) - i
        w(i)  == Skip(l, i + nd(i), WS)
        r(i)  == Skip(l, w(i) + 1, WS)
        hits  == {i \in 1..Len(l) :
                    /\ nd(i) >= 2 /\ w(i) > i + nd(i) /\ Ch(l, w(i)) = "/"
                    /\ r(i) > w(i) + 1
                    /\ Ch(l, r(i)) \in UPPER /\ Ch(l, r(i) + 1) \in UPPER
                    /\ Ch(l, r(i) + 2) = "."
                    /\ Ch(l, r(i) + 3) \in DIGIT /\ Ch(l, r(i) + 4) \in DIGIT
                    /\ Ch(l, r(i) + 5) = "."
                    /\ Ch(l, r(i) + 6) \in DIGIT /\ Ch(l, r(i) + 7) \in DIGIT}
    IN  IF hits = {} THEN <<>>
        ELSE LET i == MinOf(hits)
             IN  << <<SubSeq(l, i, i + nd(i) - 1) \o "/" \o SubSeq(l, r(i), r(i) + 7), conf>> >>

HeaderScanLines == 15

HeaderTopLines == 8

\* Priority 3: the scan of the first 15 lines, 70/75 in the first 8 lines
\* and 60/65 below
RECURSIVE ScanCandidates(_, _)
ScanCandidates(lines, idx) ==
    IF idx > Len(lines) \/ idx > HeaderScanLines THEN <<>>
    ELSE LET l   == lines[idx]
             top == idx <= HeaderTopLines
         IN  (IF l = "" \/ _is_label_line(l) # NONE THEN <<>>
              ELSE TokenCandidates(SplitTokens(l), 1, IF top THEN 70 ELSE 60)
                   \o MultiTokenCandidate(l, IF top THEN 75 ELSE 65))
             \o ScanCandidates(lines, idx + 1)

\* filename.rsplit(".", 1)[0]
FileStem(name) ==
    LET dots == {i \in 1..Len(name) : Ch(name, i) = "."}
    IN  IF dots = {} THEN name ELSE SubSeq(name, 1, MaxOf(dots) - 1)

\* a variant of FilenameCandidates that outweighs every text candidate
FilenameCandidatesHeavy(fname) ==
    LET parts == SplitTokens(FileStem(fname))
    IN  IF /\ fname # NONE /\ fname # "" /\ parts # <<>>
           /\ NumberEnd(parts[1], 1, 1) = Len(parts[1]) + 1
        THEN << <<parts[1], 110>> >> ELSE <<>>

\* Priority 4: the first token of the file name, weight 50
FilenameCandidates(fname) ==
    LET parts == SplitTokens(FileStem(fname))
    IN  IF /\ fname # NONE /\ fname # "" /\ parts # <<>>
           /\ NumberEnd(parts[1], 1, 1) = Len(parts[1]) + 1
        THEN << <<parts[1], 50>> >> ELSE <<>>

\* the candidates derived from the text, in generation order
TextCandidates(t) ==
    LET from(T) ==
            LabelCandidates(T) \o PatternCandidates(T, Lower(T), 1)
                \o ScanCandidates(StripAll(SplitLines(T)), 1)
    IN  from(PreClean(t))

\* a variant of SortByWeight that puts the later of two equal weights first
RECURSIVE SortTiesLast(_)
SortTiesLast(cands) ==
    IF cands = <<>> THEN <<>>
    ELSE LET rest == SortTiesLast(Tail(cands))
             pos  == {j \in 1..Len(rest) : rest[j][2] < Head(cands)[2]}
             at   == IF pos = {} THEN Len(rest) + 1 ELSE MinOf(pos)
         IN  SubSeq(rest, 1, at - 1) \o <<Head(cands)>> \o SubSeq(rest, at, Len(rest))

\* candidates.sort(key=lambda x: x[1], reverse=True): stable, descending
RECURSIVE SortByWeight(_)
SortByWeight(cands) ==
    IF cands = <<>> THEN <<>>
    ELSE LET rest == SortByWeight(Tail(cands))
             \* the head goes in front of the first entry it outweighs or ties
             pos  == {j \in 1..Len(rest) : rest[j][2] <= Head(cands)[2]}
             at   == IF pos = {} THEN Len(rest) + 1 ELSE MinOf(pos)
         IN  SubSeq(rest, 1, at - 1) \o <<Head(cands)>> \o SubSeq(rest, at, Len(rest))

\* extract_nomor_surat: the chosen candidate (value, weight), <<NONE, 0>>
\* when there is no candidate
BestNomor(t, fname) ==
    LET best(candidates) ==
            IF candidates # <<>> THEN SortByWeight(candidates)[1] ELSE <<NONE, 0>>
    IN  best(TextCandidates(t) \o FilenameCandidates(fname))

extract_nomor_surat(t, fname) == BestNomor(t, fname)[1]

(***************************************************************************)
(* Date extractor (metadata.py 28-31, 771-837)                             *)
(***************************************************************************)
BULAN_ID ==
    [januari |-> 1, februari |-> 2, maret |-> 3, april |-> 4, mei |-> 5,
     juni |-> 6, juli |-> 7, agustus |-> 8, september |-> 9, oktober |-> 10,
     november |-> 11, desember |-> 12]

\* int() of a string of digits
RECURSIVE ToInt(_)
ToInt(s) ==
    IF s = "" THEN 0
    ELSE 10 * ToInt(SubSeq(s, 1, Len(s) - 1))
            + (CHOOSE d \in 0..9 : Ch("0123456789", d + 1) = Ch(s, Len(s)))

\* datetime(year, month, day) succeeds (else ValueError)
ValidDate(year, month, day) ==
    LET leap == (year % 4 = 0 /\ year % 100 # 0) \/ year % 400 = 0
        dim  == IF month = 2 THEN (IF leap THEN 29 ELSE 28)
                ELSE IF month \in {4, 6, 9, 11} THEN 30 ELSE 31
    IN  month \in 1..12 /\ day >= 1 /\ day <= dim

NoDate == [year |-> 0, month |-> 0, day |-> 0, pattern |-> 0]

\* the match of (\d{1,2})\s+([A-Za-z]+)\s+(20\d{2}) that starts at i, as
\* <<day, month name, year>>; <<>> without a match
DayMonthYearAt(T, i) ==
    LET n  == IF Ch(T, i + 1) \in DIGIT THEN 2 ELSE 1
        a  == Skip(T, i + n, WS)
        b  == Skip(T, a, UPPER \cup LOWER)
        c  == Skip(T, b, WS)
    IN  IF /\ Ch(T, i) \in DIGIT /\ a > i + n /\ b > a /\ c > b
           /\ At(T, c, "20") /\ Ch(T, c + 2) \in DIGIT /\ Ch(T, c + 3) \in DIGIT
        THEN <<SubSeq(T, i, i + n - 1), SubSeq(T, a, b - 1), SubSeq(T, c, c + 3)>>
        ELSE <<>>

\* datetime(year, BULAN_ID[month name], day) of a match, NoDate when the
\* name is no month or the day does not exist
NamedDate(m, pattern) ==
    LET name == Lower(m[2])
    IN  IF /\ m # <<>> /\ name \in DOMAIN BULAN_ID
           /\ ValidDate(ToInt(m[3]), BULAN_ID[name], ToInt(m[1]))
        THEN [year |-> ToInt(m[3]), month |-> BULAN_ID[name], day |-> ToInt(m[1]),
              pattern |-> pattern]
        ELSE NoDate

DatePattern1_first_valid(T) ==
    LET hits == {i \in 1..Len(T) : NamedDate(DayMonthYearAt(T, i), 1) # NoDate}
    IN  IF hits = {} THEN NoDate ELSE NamedDate(DayMonthYearAt(T, MinOf(hits)), 1)

\* Pattern 1: the leftmost "<day> <word> 20xx"
DatePattern1(T) ==
    LET hits == {i \in 1..Len(T) : DayMonthYearAt(T, i) # <<>>}
    IN  IF hits = {} THEN NoDate ELSE NamedDate(DayMonthYearAt(T, MinOf(hits)), 1)

\* Pattern 2: the leftmost \b(\d{1,2})[-/](\d{1,2})[-/](20\d{2})\b
DatePattern2(T) ==
    LET a(i) == Skip(T, i, DIGIT)
        b(i) == Skip(T, a(i) + 1, DIGIT)
        hits == {i \in 1..Len(T) :
                    /\ Ch(T, i) \in DIGIT /\ WordBoundary(T, i)
                    /\ a(i) - i \in 1..2 /\ Ch(T, a(i)) \in SEP
                    /\ b(i) - (a(i) + 1) \in 1..2 /\ Ch(T, b(i)) \in SEP
                    /\ At(T, b(i) + 1, "20")
                    /\ Ch(T, b(i) + 3) \in DIGIT /\ Ch(T, b(i) + 4) \in DIGIT
                    /\ WordBoundary(T, b(i) + 5)}
    IN  IF hits = {} THEN NoDate
        ELSE LET i     == MinOf(hits)
                 day   == ToInt(SubSeq(T, i, a(i) - 1))
                 month == ToInt(SubSeq(T, a(i) + 1, b(i) - 1))
                 year  == ToInt(SubSeq(T, b(i) + 1, b(i) + 4))
             IN  IF ValidDate(year, month, day)
                 THEN [year |-> year, month |-> month, day |-> day, pattern |-> 2]
                 ELSE NoDate

\* Pattern 3: the leftmost \b(Tanggal|Tgl)\b\s*[:.]?\s* followed by a
\* "<day> <word> 20xx"
DatePattern3(T) ==
    LET TL     == Lower(T)
        g(i, w) == AfterLabel(T, i + Len(w))
        ok(i, w) == /\ At(TL, i, w) /\ WordBoundary(T, i) /\ WordBoundary(T, i + Len(w))
                    /\ DayMonthYearAt(T, g(i, w)) # <<>>
        hits   == {i \in 1..Len(T) : ok(i, "tanggal") \/ ok(i, "tgl")}
    IN  IF hits = {} THEN NoDate
        ELSE LET i == MinOf(hits)
                 w == IF ok(i, "tanggal") THEN "tanggal" ELSE "tgl"
             IN  NamedDate(DayMonthYearAt(T, g(i, w)), 3)

\* Fallback: the leftmost \b(20\d{2})\b, as 1 January of that year
DatePattern4(T) ==
    LET hits == {i \in 1..Len(T) :
                    /\ At(T, i, "20") /\ WordBoundary(T, i)
                    /\ Ch(T, i + 2) \in DIGIT /\ Ch(T, i + 3) \in DIGIT
                    /\ WordBoundary(T, i + 4)}
    IN  IF hits = {} THEN NoDate
        ELSE [year |-> ToInt(SubSeq(T, MinOf(hits), MinOf(hits) + 3)), month |-> 1,
              day |-> 1, pattern |-> 4]

\* extract_tanggal: the date, tagged with the pattern that produced it
\* (pattern 0 and NoDate stand for None)
extract_tanggal(t) ==
    LET first(T, d1, d2, d3) ==
            IF d1 # NoDate THEN d1
            ELSE IF d2 # NoDate THEN d2
            ELSE IF d3 # NoDate THEN d3
            ELSE DatePattern4(T)
        scan(T) == first(T, DatePattern1(T), DatePattern2(T), DatePattern3(T))
    IN  scan(_clean_text(t))

(***************************************************************************)
(* Subject extractor (metadata.py 33-46, 598-768)                          *)
(***************************************************************************)
HEADER_KEYWORDS ==
    {"PEMERINTAH", "DINAS", "KELURAHAN", "KECAMATAN", "KOTA", "KEMENTERIAN", "BADAN",
     "DEWAN", "SEKRETARIAT", "PT", "CV", "YAYASAN"}

header_indicators ==
    {"PEMERINTAH", "PROVINSI", "DAERAH", "KHUSUS", "IBUKOTA", "KOTA", "ADMINISTRASI",
     "KECAMATAN", "KELURAHAN", "DINAS", "KEMENTERIAN", "REPUBLIK"}

\* \b[O0][S5IB0-9]\s*['"]?\s*/\s*[A-Z]{2}\.[0-9.]+ (ignoring case) is found
\* in s: a registration number with an OCR error
LooksLikeOcrNomor(s) ==
    \E i \in 1..Len(s) :
        /\ WordBoundary(s, i)
        /\ Ch(s, i) \in {"O", "o", "0"}
        /\ Ch(s, i + 1) \in {"S", "s", "I", "i", "B", "b"} \cup DIGIT
        /\ LET a == Skip(s, i + 2, WS)
               b == Skip(s, IF Ch(s, a) \in {"'", "\""} THEN a + 1 ELSE a, WS)
               c == Skip(s, b + 1, WS)
           IN  /\ Ch(s, b) = "/"
               /\ Ch(s, c) \in UPPER \cup LOWER /\ Ch(s, c + 1) \in UPPER \cup LOWER
               /\ Ch(s, c + 2) = "." /\ Ch(s, c + 3) \in DIGIT \cup {"."}

\* ^\d{2,3}\s*/\s*[A-Z]{2}\.[0-9.]+\s+\d{1,2}\s+\w+\s+\d{4} matches s: a
\* registration number followed by a date
LooksLikeNomorTanggal(s) ==
    LET d == Skip(s, 1, DIGIT)
        a == Skip(s, d, WS)
        b == Skip(s, a + 1, WS)
        c == Skip(s, b + 3, DIGIT \cup {"."})
        e == Skip(s, c, WS)
        f == Skip(s, e, DIGIT)
        g == Skip(s, f, WS)
        h == Skip(s, g, WORD)
        k == Skip(s, h, WS)
    IN  /\ d - 1 \in 2..3 /\ Ch(s, a) = "/"
        /\ Ch(s, b) \in UPPER /\ Ch(s, b + 1) \in UPPER /\ Ch(s, b + 2) = "."
        /\ c > b + 3 /\ e > c /\ f - e \in 1..2 /\ g > f /\ h > g /\ k > h
        /\ \A j \in k..(k + 3) : Ch(s, j) \in DIGIT

\* re.split(pattern, s)[0] for (?i)\bYth\. and (?i)\bKepada\b
BeforeYth(s) ==
    LET sl   == Lower(s)
        hits == {i \in 1..Len(s) : At(sl, i, "yth.") /\ WordBoundary(s, i)}
    IN  IF hits = {} THEN s ELSE SubSeq(s, 1, MinOf(hits) - 1)

BeforeKepada(s) ==
    LET sl   == Lower(s)
        hits == {i \in 1..Len(s) :
                    At(sl, i, "kepada") /\ WordBoundary(s, i) /\ WordBoundary(s, i + 6)}
    IN  IF hits = {} THEN s ELSE SubSeq(s, 1, MinOf(hits) - 1)

\* the loop that cuts a trailing recipient reference
CutRecipient(s) ==
    IF Len(Strip(BeforeYth(s), WS)) >= 3 THEN Strip(BeforeYth(s), {" ", ",", ".", ";"})
    ELSE IF Len(Strip(BeforeKepada(s), WS)) >= 3
    THEN Strip(BeforeKepada(s), {" ", ",", ".", ";"})
    ELSE s

\* re.sub(r"(?i)\s+(kebakaran|di|jakarta|tanggal|nomor)\s*$", "", s).strip()
CutTrailingWord(s) ==
    LET r    == RStrip(s, WS)
        rl   == Lower(r)
        hits == {w \in {"kebakaran", "di", "jakarta", "tanggal", "nomor"} :
                    /\ Len(r) > Len(w)
                    /\ At(rl, Len(r) - Len(w) + 1, w)
                    /\ Ch(r, Len(r) - Len(w)) \in WS}
    IN  IF hits = {} THEN Strip(s, WS)
        ELSE Strip(SubSeq(r, 1, Len(r) - Len(CHOOSE w \in hits : TRUE)), WS)

\* re.match(r"^\d{1,2}[-/\s]\w+[-/\s]\d{2,4}$", s)
LooksLikeDate(s) ==
    LET a == Skip(s, 1, DIGIT)
        b == Skip(s, a + 1, WORD)
        c == Skip(s, b + 1, DIGIT)
    IN  /\ a - 1 \in 1..2 /\ Ch(s, a) \in SEP \cup WS
        /\ b > a + 1 /\ Ch(s, b) \in SEP \cup WS
        /\ c - (b + 1) \in 2..4
        /\ (c = Len(s) + 1 \/ (c = Len(s) /\ Ch(s, c) = "\n"))

_sanitize_perihal(value) ==
    LET header_count(upper) ==
            Cardinality({kw \in header_indicators : Contains(upper, kw)})
        check(cleaned0, cleaned, upper) ==
            IF value = NONE \/ value = "" THEN NONE
            ELSE IF LooksLikeOcrNomor(cleaned0) \/ LooksLikeNomorTanggal(cleaned0) THEN NONE
            ELSE IF header_count(upper) >= 3 THEN NONE
            ELSE IF upper \in HEADER_KEYWORDS THEN NONE
            ELSE IF Len(cleaned) < 5 \/ (\A i \in 1..Len(cleaned) : Ch(cleaned, i) \in DIGIT)
            THEN NONE
            ELSE IF LooksLikeDate(cleaned) THEN NONE
            ELSE IF IsUpper(cleaned) /\ Len(cleaned) > 40 THEN NONE
            ELSE cleaned
        cut(cleaned0, cleaned) == check(cleaned0, cleaned, Upper(cleaned))
        clean(cleaned0) == cut(cleaned0, CutTrailingWord(CutRecipient(cleaned0)))
    IN  clean(LStrip(Strip(value, WS), {":", "-", " "}))

RECURSIVE CollectPerihal_through_blanks(_, _, _)
CollectPerihal_through_blanks(lines, k, any) ==
    IF k > Len(lines) \/ k > 10 THEN <<>>
    ELSE LET line == Strip(lines[k], WS)
         IN  IF line = "" THEN CollectPerihal_through_blanks(lines, k + 1, any)
             ELSE IF _is_label_line(line) # NONE \/ IsRecipientStart(line) THEN <<>>
             ELSE <<line>> \o CollectPerihal_through_blanks(lines, k + 1, TRUE)

\* Priority 2: the lines collected after the label, from line k on;
\* any tells whether a line has been collected already
RECURSIVE CollectPerihal(_, _, _)
CollectPerihal(lines, k, any) ==
    IF k > Len(lines) \/ k > 10 THEN <<>>
    ELSE LET line == Strip(lines[k], WS)
         IN  IF line = "" THEN (IF any THEN <<>> ELSE CollectPerihal(lines, k + 1, any))
             ELSE IF _is_label_line(line) # NONE \/ IsRecipientStart(line) THEN <<>>
             ELSE <<line>> \o CollectPerihal(lines, k + 1, TRUE)

\* Priority 2: what follows the first Hal/Perihal word and its separator,
\* NONE when the text has no such word
DirectRemainder(T) ==
    LET TL   == Lower(T)
        hits == {i \in 1..Len(T) : \E w \in {"hal", "perihal"} :
                    At(TL, i, w) /\ WordBoundary(T, i) /\ WordBoundary(T, i + Len(w))}
        i    == MinOf(hits)
        end  == IF At(TL, i, "hal") /\ WordBoundary(T, i + 3) THEN i + 3 ELSE i + 7
    IN  IF hits = {} THEN NONE
        ELSE LStrip(From(T, end), {" ", "\t", "\r", "\n", ":", "-"})

\* Priority 2: the sanitized text that follows the first Hal/Perihal word
DirectPerihal(T) ==
    LET collect(remainder) ==
            IF remainder = NONE THEN <<>>
            ELSE CollectPerihal(SplitLines(remainder), 1, FALSE)
        sanitize(collected_lines) ==
            IF collected_lines = <<>> THEN NONE
            ELSE _sanitize_perihal(Join(collected_lines, " "))
    IN  sanitize(collect(DirectRemainder(T)))

PerihalKeywords ==
    {"permohonan", "balasan", "undangan", "disposisi", "pemberitahuan", "pengajuan",
     "laporan", "penyampaian", "permintaan"}

\* Priority 3: the first of lines[5:40] that holds a keyword and sanitizes
\* to more than 10 characters
RECURSIVE KeywordPerihal(_, _)
KeywordPerihal(lines, k) ==
    IF k > Len(lines) \/ k > 40 THEN NONE
    ELSE LET l == lines[k]
             ll == Lower(l)
             accept(sanitized) ==
                 IF /\ \E kw \in PerihalKeywords : \E i \in 1..Len(l) :
                           At(ll, i, kw) /\ WordBoundary(l, i) /\ WordBoundary(l, i + Len(kw))
                    /\ sanitized # NONE /\ Len(sanitized) > 10
                 THEN sanitized
                 ELSE KeywordPerihal(lines, k + 1)
         IN  accept(_sanitize_perihal(Strip(l, WS)))

\* Priority 4: what follows the first token of the file name (the file
\* names of this model hold no line break)
FilenamePerihal(fname) ==
    LET name == FileStem(fname)
        a    == Skip(name, 1, WS)
        b    == Skip(name, a, NUMCH)
        perihal_candidate == Strip(From(name, b), WS)
    IN  IF /\ fname # NONE /\ fname # "" /\ b > a /\ Ch(name, b) \in WS
           /\ Len(perihal_candidate) > 3
        THEN perihal_candidate ELSE NONE

\* extract_perihal, with the strategy that produced the value
PerihalBy(t, fname) ==
    LET first(label, direct, keyword, fromfile) ==
            IF label # NONE THEN <<label, "label-block">>
            ELSE IF direct # NONE THEN <<direct, "direct-label">>
            ELSE IF keyword # NONE THEN <<keyword, "keyword-scan">>
            ELSE IF fromfile # NONE THEN <<fromfile, "filename">>
            ELSE <<NONE, "none">>
        from(T) ==
            first(_sanitize_perihal(extract_label_block_values(T).perihal), DirectPerihal(T),
                  KeywordPerihal(SplitLines(T), 6), FilenamePerihal(fname))
    IN  from(PreClean(t))

extract_perihal(t, fname) == PerihalBy(t, fname)[1]

(***************************************************************************)
(* Type classifier (metadata.py 857-986)                                   *)
(***************************************************************************)
\* header_text, header_first_10_lines: the first n lines of the cleaned
\* text, joined by blanks and upper-cased
HeaderText(T, n) == Upper(Join(Prefix(SplitLines(T), n), " "))

lainnya_keywords ==
    {"PAPARAN", "BUKU PANDUAN", "PANDUAN", "PRESENTASI", "HANDBOOK", "GUIDE BOOK",
     "MANUAL", "MODUL"}

\* Check 1: a non-letter keyword in the first 500 characters
NonLetterKeyword(T) == \E kw \in lainnya_keywords : Contains(Upper(Prefix(T, 500)), kw)

\* Check 2: (?i)\b(Nomor|No)\b\s*[:=.\-]*\s*[A-Za-z0-9] is found in T
has_nomor_label(T) ==
    LET TL == Lower(T)
    IN  \E i \in 1..Len(T) : \E w \in {"nomor", "no"} :
            /\ At(TL, i, w) /\ WordBoundary(T, i) /\ WordBoundary(T, i + Len(w))
            /\ LET a == Skip(T, i + Len(w), WS)
                   b == Skip(T, a, {":", "=", ".", "-"})
                   c == Skip(T, b, WS)
               IN  Ch(T, c) \in ALNUM

kop_patterns ==
    {"KELURAHAN PELA MAMPANG", "BANGKA X UJUNG", "PELAMAMAMPANGKELURAHAN", "718 2380",
     "7182380"}

\* the home letterhead is in the first 10 lines
has_kop_pela_mampang_top(T) ==
    LET header_first_10_lines == HeaderText(T, 10)
    IN  \/ \E p \in kop_patterns : Contains(header_first_10_lines, p)
        \/ /\ Contains(header_first_10_lines, "PELA MAMPANG")
           /\ Contains(header_first_10_lines, "MAMPANG PRAPATAN")

\* (?i)(kepada|yth).{0,50}(lurah|kelurahan).{0,20}pela\s+mampang is found in
\* the first 1000 characters (the dot matches line breaks)
is_recipient_pela_mampang(T) ==
    LET S == Lower(Prefix(T, 1000))
    IN  \E i \in 1..Len(S) : \E w \in {"kepada", "yth"} :
            /\ At(S, i, w)
            /\ \E j \in (i + Len(w))..(i + Len(w) + 50) : \E v \in {"lurah", "kelurahan"} :
                   /\ At(S, j, v)
                   /\ \E k \in (j + Len(v))..(j + Len(v) + 20) :
                          /\ At(S, k, "pela")
                          /\ Skip(S, k + 4, WS) > k + 4
                          /\ At(S, Skip(S, k + 4, WS), "mampang")

\* a variant of KopRule without the branch for the home institution as
\* recipient
KopRule_sender_only(T) ==
    IF has_kop_pela_mampang_top(T) /\ ~is_recipient_pela_mampang(T)
    THEN <<"keluar", 95, "kop-pela-mampang">>
    ELSE <<>>

\* Check 3: the letterhead rule, <<>> when it does not fire
KopRule(T) ==
    LET recipient == is_recipient_pela_mampang(T)
    IN  IF has_kop_pela_mampang_top(T) /\ ~recipient
        THEN <<"keluar", 95, "kop-pela-mampang">>
        ELSE IF recipient THEN <<"masuk", 95, "recipient-pela-mampang">>
        ELSE <<>>

\* (?i)(?:^|/|[-_])<code>(?:/|[-_]|$) is found in s
CodeToken(s, code) ==
    LET sl == Lower(s)
    IN  \E i \in 1..Len(s) :
        /\ At(sl, i, code)
        /\ (i = 1 \/ Ch(s, i - 1) \in {"/", "-", "_"})
        /\ \/ Ch(s, i + Len(code)) \in {"/", "-", "_"}
           \/ i + Len(code) = Len(s) + 1
           \/ (i + Len(code) = Len(s) /\ Ch(s, Len(s)) = "\n")

\* Check 4: the shape of the registration number, <<>> when it does not fire
NomorRule(nomor) ==
    LET n == Skip(nomor, 1, DIGIT) - 1
    IN  IF nomor = NONE \/ nomor = "" THEN <<>>
        ELSE IF /\ n \in 1..3 /\ Ch(nomor, n + 1) \in SEP
                /\ Ch(nomor, n + 2) \in UPPER /\ Ch(nomor, n + 3) \in UPPER
                /\ Ch(nomor, n + 4) = "." /\ Ch(nomor, n + 5) \in DIGIT
        THEN <<"keluar", 90, "nomor-pattern-keluar">>
        ELSE IF /\ n \in 1..3 /\ Ch(nomor, n + 1) = "/"
                /\ Ch(nomor, n + 2) \in DIGIT /\ Ch(nomor, n + 3) \in DIGIT
                /\ Ch(nomor, n + 4) = "/"
                /\ Ch(nomor, n + 5) \in DIGIT /\ Ch(nomor, n + 6) \in DIGIT
        THEN <<"keluar", 90, "nomor-pattern-keluar">>
        ELSE IF CodeToken(nomor, "sm") THEN <<"masuk", 90, "nomor-pattern-SM">>
        ELSE <<>>

\* Check 5: a generic institution header, <<>> when it does not fire
HeaderRule(T) ==
    LET header_text == HeaderText(T, 30)
    IN  IF Contains(header_text, "PEMERINTAH") /\ ~has_kop_pela_mampang_top(T)
        THEN IF /\ Contains(header_text, "KEPADA")
                /\ (Contains(header_text, "YTH") \/ Contains(header_text, "YANG TERHORMAT"))
             THEN IF is_recipient_pela_mampang(T)
                  THEN <<"masuk", 95, "pemerintah-to-pela-mampang">>
                  ELSE <<"keluar", 80, "kepada-yth-pattern">>
             ELSE <<"masuk", 85, "pemerintah-header">>
        ELSE IF \/ Contains(header_text, "KEMENTERIAN") \/ Contains(header_text, "DEWAN")
                \/ Contains(header_text, "PT.")
        THEN <<"masuk", 85, "external-institution">>
        ELSE <<>>

\* (?i)\b<word>\b is found in s
HasWord(s, word) ==
    LET sl == Lower(s)
    IN  \E i \in 1..Len(s) :
        At(sl, i, word) /\ WordBoundary(s, i) /\ WordBoundary(s, i + Len(word))

\* Check 6: the hint of the file name, <<>> when it does not fire
FilenameRule(fname) ==
    LET name == FileStem(fname)
    IN  IF fname = NONE \/ fname = "" THEN <<>>
        ELSE IF CodeToken(name, "sm") \/ HasWord(name, "masuk")
        THEN <<"masuk", 70, "filename-hint">>
        ELSE IF CodeToken(name, "sk") \/ HasWord(name, "keluar")
        THEN <<"keluar", 70, "filename-hint">>
        ELSE <<>>

\* a variant of MlRule that accepts an answer at the bar
MlRule_at_bar(t, ml) ==
    IF ml.available /\ Len(Strip(t, WS)) > 50 /\ ~ml.raises /\ ml.conf >= 80
    THEN <<ml.jenis, ml.conf, "ml-classifier">>
    ELSE <<>>

\* Check 7: the statistical model.  ml is the collaborator as this call
\* meets it: available (USE_ML_CLASSIFIER), raising or answering
\* (jenis, conf); confidences are hundredths.  <<>> when it does not fire
MlRule(t, ml) ==
    IF ml.available /\ Len(Strip(t, WS)) > 50 /\ ~ml.raises /\ ml.conf > 80
    THEN <<ml.jenis, ml.conf, "ml-classifier">>
    ELSE <<>>

\* a variant of detect_jenis that looks at the file name before the shape
\* of the number
detect_jenis_hint_first(t, nomor, fname, ml) ==
    LET cascade(T, kop, shape, header, hint, model) ==
            IF NonLetterKeyword(T) THEN <<"lainnya", 90, "non-letter-keywords">>
            ELSE IF ~has_nomor_label(T) THEN <<"lainnya", 85, "no-nomor-label">>
            ELSE IF kop # <<>> THEN kop
            ELSE IF hint # <<>> THEN hint
            ELSE IF shape # <<>> THEN shape
            ELSE IF header # <<>> THEN header
            ELSE IF model # <<>> THEN model
            ELSE <<"lainnya", 60, "default-fallback">>
        rules(T) ==
            cascade(T, KopRule(T), NomorRule(nomor), HeaderRule(T), FilenameRule(fname),
                    MlRule(t, ml))
    IN  rules(_clean_text(t))

\* a variant of detect_jenis that looks at the letterhead before the
\* number label
detect_jenis_kop_first(t, nomor, fname, ml) ==
    LET cascade(T, kop, shape, header, hint, model) ==
            IF NonLetterKeyword(T) THEN <<"lainnya", 90, "non-letter-keywords">>
            ELSE IF kop # <<>> THEN kop
            ELSE IF ~has_nomor_label(T) THEN <<"lainnya", 85, "no-nomor-label">>
            ELSE IF shape # <<>> THEN shape
            ELSE IF header # <<>> THEN header
            ELSE IF hint # <<>> THEN hint
            ELSE IF model # <<>> THEN model
            ELSE <<"lainnya", 60, "default-fallback">>
        rules(T) ==
            cascade(T, KopRule(T), NomorRule(nomor), HeaderRule(T), FilenameRule(fname),
                    MlRule(t, ml))
    IN  rules(_clean_text(t))

\* a variant of detect_jenis that looks at the shape of the number before
\* the letterhead
detect_jenis_shape_first(t, nomor, fname, ml) ==
    LET cascade(T, kop, shape, header, hint, model) ==
            IF NonLetterKeyword(T) THEN <<"lainnya", 90, "non-letter-keywords">>
            ELSE IF ~has_nomor_label(T) THEN <<"lainnya", 85, "no-nomor-label">>
            ELSE IF shape # <<>> THEN shape
            ELSE IF kop # <<>> THEN kop
            ELSE IF header # <<>> THEN header
            ELSE IF hint # <<>> THEN hint
            ELSE IF model # <<>> THEN model
            ELSE <<"lainnya", 60, "default-fallback">>
        rules(T) ==
            cascade(T, KopRule(T), NomorRule(nomor), HeaderRule(T), FilenameRule(fname),
                    MlRule(t, ml))
    IN  rules(_clean_text(t))

detect_jenis(t, nomor, fname, ml) ==
    LET cascade(T, kop, shape, header, hint, model) ==
            IF NonLetterKeyword(T) THEN <<"lainnya", 90, "non-letter-keywords">>
            ELSE IF ~has_nomor_label(T) THEN <<"lainnya", 85, "no-nomor-label">>
            ELSE IF kop # <<>> THEN kop
            ELSE IF shape # <<>> THEN shape
            ELSE IF header # <<>> THEN header
            ELSE IF hint # <<>> THEN hint
            ELSE IF model # <<>> THEN model
            ELSE <<"lainnya", 60, "default-fallback">>
        rules(T) ==
            cascade(T, KopRule(T), NomorRule(nomor), HeaderRule(T), FilenameRule(fname),
                    MlRule(t, ml))
    IN  rules(_clean_text(t))

(***************************************************************************)
(* parse_metadata (metadata.py 989-1052)                                   *)
(***************************************************************************)
\* a variant of MONTH_NAMES with the Indonesian month names
MONTH_NAMES_ID ==
    <<"Januari", "Februari", "Maret", "April", "Mei", "Juni", "Juli", "Agustus",
      "September", "Oktober", "November", "Desember">>

\* the month names of strftime("%B"): the process never sets a locale, so
\* they are those of the C locale
MONTH_NAMES ==
    <<"January", "February", "March", "April", "May", "June", "July", "August",
      "September", "October", "November", "December">>

\* str() of a natural number
RECURSIVE Digits(_)
Digits(n) ==
    IF n < 10 THEN Ch("0123456789", n + 1)
    ELSE Digits(n \div 10) \o Ch("0123456789", (n % 10) + 1)

\* dt.strftime(fmt) for the two formats of parse_metadata
strftime(dt, fmt) ==
    IF fmt = "%Y" THEN Digits(dt.year)
    ELSE (IF dt.day < 10 THEN "0" ELSE "") \o Digits(dt.day) \o " "
            \o MONTH_NAMES[dt.month] \o " " \o Digits(dt.year)

\* tanggal_str of parse_metadata
tanggal_str(dt) ==
    IF dt # NoDate /\ dt.day # 1 THEN strftime(dt, "%d %B %Y")
    ELSE IF dt # NoDate THEN strftime(dt, "%Y")
    ELSE NONE

\* the locals of parse_metadata before its first statement; tahun 0 stands
\* for None, keys are the keys of the returned dictionary
NoParsed ==
    [nomor |-> NONE, dt |-> NoDate, tanggal_surat |-> NONE, tahun |-> 0,
     jenis |-> NONE, jenis_confidence |-> 0, jenis_method |-> NONE,
     perihal |-> NONE, fields_extracted |-> 0, keys |-> {}]

\* bool(value) of an optional string
Truthy(value) == value # NONE /\ value # ""

ParseNomor ==
    /\ pc = "start"
    /\ result' = [result EXCEPT !.nomor = extract_nomor_surat(text, filename)]
    /\ calls' = Append(calls, "extract_nomor_surat")
    /\ pc' = "tanggal"
    /\ UNCHANGED <<text, filename, aux>>

ParseTanggal ==
    /\ pc = "tanggal"
    /\ LET set(dt) ==
               result' = [result EXCEPT !.dt = dt,
                                        !.tanggal_surat = tanggal_str(dt),
                                        !.tahun = dt.year]
       IN  set(extract_tanggal(text))
    /\ calls' = Append(calls, "extract_tanggal")
    /\ pc' = "jenis"
    /\ UNCHANGED <<text, filename, aux>>

ParseJenis ==
    /\ pc = "jenis"
    /\ LET set(j) ==
               result' = [result EXCEPT !.jenis = j[1],
                                        !.jenis_confidence = j[2],
                                        !.jenis_method = j[3]]
       IN  set(detect_jenis(text, result.nomor, filename, aux))
    /\ calls' = Append(calls, "detect_jenis")
    /\ pc' = "perihal"
    /\ UNCHANGED <<text, filename, aux>>

\* a variant of ParsePerihal that extracts the subject of every letter
ParsePerihalAlways ==
    /\ pc = "perihal"
    /\ result' = [result EXCEPT !.perihal = extract_perihal(text, filename)]
    /\ calls' = Append(calls, "extract_perihal")
    /\ pc' = "stats"
    /\ UNCHANGED <<text, filename, aux>>

ParsePerihal ==
    /\ pc = "perihal"
    /\ result.jenis # "keluar"
    /\ result' = [result EXCEPT !.perihal = extract_perihal(text, filename)]
    /\ calls' = Append(calls, "extract_perihal")
    /\ pc' = "stats"
    /\ UNCHANGED <<text, filename, aux>>

ParseSkipPerihal ==
    /\ pc = "perihal"
    /\ result.jenis = "keluar"
    /\ pc' = "stats"
    /\ UNCHANGED <<text, filename, aux, result, calls>>

\* extraction_stats and the returned dictionary
ParseReturn ==
    /\ pc = "stats"
    /\ LET count(b) == IF b THEN 1 ELSE 0
       IN  result' =
             [result EXCEPT
                !.fields_extracted =
                    count(Truthy(result.nomor))
                    + count(IF result.jenis # "keluar" THEN Truthy(result.perihal) ELSE FALSE)
                    + count(Truthy(result.tanggal_surat))
                    + count(result.tahun # 0)
                    + count(Truthy(result.jenis)),
                !.keys =
                    {"nomor", "tanggal_surat", "tahun", "jenis", "jenis_confidence",
                     "jenis_method", "_extraction_stats"}
                    \cup (IF result.jenis # "keluar" THEN {"perihal"} ELSE {})]
    /\ pc' = "done"
    /\ UNCHANGED <<text, filename, aux, calls>>

(***************************************************************************)
(* Quality scoring of upload_document (upload.py 107-159)                  *)
(***************************************************************************)
\* a variant of quality_checks that gives the number 25 points
quality_checks_light ==
    << <<"nomor", 25, "TANPA-NOMOR", "Nomor surat tidak terdeteksi">>,
       <<"tanggal_surat", 20, NONE, "Tanggal surat tidak terdeteksi">>,
       <<"tahun", 10, NONE, "Tahun tidak terdeteksi">>,
       <<"jenis", 10, NONE, "Jenis surat tidak terdeteksi">> >>

\* (field, weight, default, warning)
quality_checks ==
    << <<"nomor", 30, "TANPA-NOMOR", "Nomor surat tidak terdeteksi">>,
       <<"tanggal_surat", 20, NONE, "Tanggal surat tidak terdeteksi">>,
       <<"tahun", 10, NONE, "Tahun tidak terdeteksi">>,
       <<"jenis", 10, NONE, "Jenis surat tidak terdeteksi">> >>

\* value and value != default, for value = parsed.get(field)
FieldPresent(parsed, field, default) ==
    CASE field = "nomor" -> Truthy(parsed.nomor) /\ parsed.nomor # default
      [] field = "tanggal_surat" -> Truthy(parsed.tanggal_surat) /\ parsed.tanggal_surat # default
      [] field = "tahun" -> parsed.tahun # 0
      [] field = "jenis" -> Truthy(parsed.jenis) /\ parsed.jenis # default

\* the loop over quality_checks from check k on: the values of the score
\* after each check, and the warnings
RECURSIVE FieldChecks(_, _, _)
FieldChecks(parsed, k, score) ==
    IF k > Len(quality_checks) THEN [trace |-> <<>>, warnings |-> <<>>]
    ELSE LET hit  == FieldPresent(parsed, quality_checks[k][1], quality_checks[k][3])
             now  == IF hit THEN score + quality_checks[k][2] ELSE score
             rest == FieldChecks(parsed, k + 1, now)
         IN  [trace |-> <<now>> \o rest.trace,
              warnings |-> (IF hit THEN <<>> ELSE <<quality_checks[k][4]>>) \o rest.warnings]

\* a variant of max_0 that lets the difference through
max_0_unfloored(x) == x

\* max(0, x)
max_0(x) == IF x < 0 THEN 0 ELSE x

\* a variant of text_quality_checks whose second test is an if of its own
text_quality_checks_both(score, text_length, ocr_used) ==
    LET short == text_length < 100
        thin  == ocr_used /\ text_length < 300
        s1    == IF short THEN max_0(score - 15) ELSE score
    IN  [score |-> IF thin THEN max_0(s1 - 5) ELSE s1,
         warnings |->
            (IF short THEN <<"Teks terekstrak sangat pendek (kualitas OCR buruk)">>
             ELSE <<>>)
            \o (IF thin THEN <<"Teks hasil OCR kurang lengkap">> ELSE <<>>)]

\* the text extraction quality checks: if text_length < 100 ... elif
\* ocr_used and text_length < 300 ...
text_quality_checks(score, text_length, ocr_used) ==
    IF text_length < 100
    THEN [score |-> max_0(score - 15),
          warnings |-> <<"Teks terekstrak sangat pendek (kualitas OCR buruk)">>]
    ELSE IF ocr_used /\ text_length < 300
    THEN [score |-> max_0(score - 5),
          warnings |-> <<"Teks hasil OCR kurang lengkap">>]
    ELSE [score |-> score, warnings |-> <<>>]

\* metadata_quality: the final score, the warnings and the trace of the
\* values the score takes; success_rate is in tenths of a percent
metadata_quality(parsed, text_length, ocr_used, ocr_stats) ==
    LET fields  == FieldChecks(parsed, 1, 0)
        s4      == fields.trace[Len(fields.trace)]
        perihal_value == IF "perihal" \in parsed.keys THEN parsed.perihal ELSE NONE
        has_perihal   == Truthy(perihal_value) /\ perihal_value # "Tidak ada perihal"
        s5      == IF parsed.jenis = "keluar"
                   THEN (IF has_perihal THEN s4 + 25 ELSE s4)
                   ELSE (IF has_perihal THEN s4 + 15 ELSE s4)
        w5      == IF parsed.jenis = "keluar" /\ ~has_perihal
                   THEN <<"Perihal tidak terdeteksi (wajib untuk surat keluar)">> ELSE <<>>
        tq      == text_quality_checks(s5, text_length, ocr_used)
        s6      == tq.score
        w6      == tq.warnings
        low     == ocr_used /\ ocr_stats.present /\ ocr_stats.success_rate < 500
        s7      == IF low THEN max_0(s6 - 10) ELSE s6
        w7      == IF low THEN <<"OCR success rate rendah">> ELSE <<>>
    IN  [score |-> s7,
         warnings |-> fields.warnings \o w5 \o w6 \o w7,
         trace |-> <<0>> \o fields.trace \o <<s5, s6, s7>>]

(***************************************************************************)
(* Input texts: lines of a vocabulary, in the order of the vocabulary      *)
(***************************************************************************)
RECURSIVE Repeat(_, _)
Repeat(s, n) == IF n = 0 THEN "" ELSE s \o Repeat(s, n - 1)

\* the lines of vocab whose index is in S, from index k on, each ended by
\* a line break
RECURSIVE Pick(_, _, _)
Pick(vocab, S, k) ==
    IF k > Len(vocab) THEN ""
    ELSE (IF k \in S THEN vocab[k] \o "\n" ELSE "") \o Pick(vocab, S, k + 1)

\* the texts of at most n lines of vocab
Texts(vocab, n) ==
    {Pick(vocab, S, 1) : S \in {X \in SUBSET (1..Len(vocab)) : Cardinality(X) <= n}}

(***************************************************************************)
(* The classifier behind the cascade's last check: classify, classify_ml   *)
(* and classify_rules (classifier_ml.py 30-157)                            *)
(***************************************************************************)
\* end of the match at i of the words ws[k..] separated by \s+ (the first
\* position after it), 0 when there is none
RECURSIVE WordsEnd(_, _, _, _)
WordsEnd(s, i, ws, k) ==
    IF ~At(s, i, ws[k]) THEN 0
    ELSE IF k = Len(ws) THEN i + Len(ws[k])
    ELSE IF Ch(s, i + Len(ws[k])) \notin WS THEN 0
    ELSE WordsEnd(s, Skip(s, i + Len(ws[k]), WS), ws, k + 1)

\* re.search of the words ws separated by \s+
HasWords(s, ws) == \E i \in 1..Len(s) : WordsEnd(s, i, ws, 1) # 0

\* re.search of one of the word sequences of W
HasAnyWords(s, W) == \E ws \in W : HasWords(s, ws)

\* re.search of head.*tail: tail starts on the line on which head ends
HasWordsThenWords(s, head, tail) ==
    \E i \in 1..Len(s) :
        LET e == WordsEnd(s, i, head, 1)
        IN  /\ e # 0
            /\ \E j \in e..Len(s) :
                  /\ WordsEnd(s, j, tail, 1) # 0
                  /\ \A m \in e..(j - 1) : Ch(s, m) # "\n"

\* re.search of word\s*:
HasLabelColon(s, word) ==
    \E i \in 1..Len(s) : At(s, i, word) /\ Ch(s, Skip(s, i + Len(word), WS)) = ":"

\* the positions after an optional character of class C at j
OptionalChar(s, j, C) == {j} \cup (IF Ch(s, j) \in C THEN {j + 1} ELSE {})

\* re.search of no(mor)?\.?\s*[:.]?\s*\d+
HasNomorDigits(s) ==
    \E i \in 1..Len(s) :
        /\ At(s, i, "no")
        /\ \E j0 \in {i + 2} \cup (IF At(s, i + 2, "mor") THEN {i + 5} ELSE {}) :
           \E j1 \in OptionalChar(s, j0, {"."}) :
           \E j2 \in OptionalChar(s, Skip(s, j1, WS), {":", "."}) :
              Ch(s, Skip(s, j2, WS)) \in DIGIT

\* re.search of \d+/\w+/\w+/\d+
HasSlashedNumber(s) ==
    \E i \in 1..Len(s) :
        LET b == Skip(s, i + 2, WORD)
            d == Skip(s, b + 1, WORD)
        IN  /\ Ch(s, i) \in DIGIT /\ Ch(s, i + 1) = "/"
            /\ b > i + 2 /\ Ch(s, b) = "/"
            /\ d > b + 1 /\ Ch(s, d) = "/"
            /\ Ch(s, d + 1) \in DIGIT

\* which patterns of SURAT_KELUAR_INDICATORS are found in t, in list order
SURAT_KELUAR_INDICATORS(t) ==
    << HasWords(t, <<"kepada", "yth">>),
       HasWords(t, <<"kepada", "yang", "terhormat">>),
       HasAnyWords(t, {<<y, w>> : y \in {"yth", "yth."}, w \in {"bapak", "ibu", "saudara"}}),
       HasWords(t, <<"di", "tempat">>),
       HasWords(t, <<"di", "-", "">>),
       HasAnyWords(t, {<<"demikian", "sampaikan">>, <<"demikian", "kami", "sampaikan">>}),
       HasAnyWords(t, {<<"atas", p, "ucapkan">> : p \in {"perhatian", "perhatiannya"}}
                      \cup {<<"atas", p, "kami", "ucapkan">> :
                               p \in {"perhatian", "perhatiannya"}}),
       HasWords(t, <<"hormat", "kami">>),
       HasAnyWords(t, {<<"lurah", "pela", "mampang">>, <<"camat", "pela", "mampang">>,
                       <<"kepala", "seksi", "pela", "mampang">>,
                       <<"kasi", "pela", "mampang">>}),
       Contains(t, "lurah") \/ Contains(t, "camat"),
       \E p \in {"provinsi", "kota"} :
           HasWordsThenWords(t, <<"pemerintah", p>>, <<"kelurahan", "pela", "mampang">>),
       HasWordsThenWords(t, <<"kelurahan", "pela", "mampang">>,
                         <<"kecamatan", "mampang", "prapatan">>),
       HasWords(t, <<"surat", "keputusan">>),
       HasWords(t, <<"surat", "perintah">>),
       HasWords(t, <<"surat", "tugas">>),
       HasWords(t, <<"surat", "keterangan">>),
       HasWords(t, <<"surat", "edaran">>) >>

\* which patterns of SURAT_INDICATORS are found in t, in list order
SURAT_INDICATORS(t) ==
    << HasNomorDigits(t),
       HasSlashedNumber(t),
       HasLabelColon(t, "perihal"),
       HasLabelColon(t, "hal"),
       HasLabelColon(t, "lampiran"),
       HasAnyWords(t, {<<"surat", w>> : w \in {"masuk", "keluar", "undangan", "permohonan"}}),
       HasAnyWords(t, {<<w, y>> : w \in {"kepada", "dari"}, y \in {"yth", "yang terhormat"}}),
       HasWords(t, <<"dengan", "hormat">>) >>

\* the number of patterns found
CountFound(found) == Cardinality({k \in 1..Len(found) : found[k]})

\* classify_rules: (jenis, confidence in hundredths)
classify_rules(text_) ==
    LET decide(keluar_count, surat_count) ==
            IF keluar_count >= 3
            THEN <<"keluar", IF 60 + keluar_count * 10 > 95 THEN 95 ELSE 60 + keluar_count * 10>>
            ELSE IF surat_count >= 1
            THEN <<"masuk", IF 55 + surat_count * 10 > 90 THEN 90 ELSE 55 + surat_count * 10>>
            ELSE <<"lainnya", 65>>
        count(t) == decide(CountFound(SURAT_KELUAR_INDICATORS(t)),
                           CountFound(SURAT_INDICATORS(t)))
    IN  count(Lower(text_))

\* classify_ml: model.prediction and model.confidence are the answer of the
\* loaded model, model.raises tells that predicting raises
classify_ml(text_, model) ==
    IF model.raises THEN classify_rules(text_)
    ELSE IF model.confidence < 70 THEN classify_rules(text_)
    ELSE <<IF model.prediction = "keluar" THEN "keluar" ELSE "masuk", model.confidence>>

\* classify: model.loaded tells that ML_MODEL is not None
classify(text_, model) ==
    IF model.loaded THEN classify_ml(text_, model) ELSE classify_rules(text_)

\* the statistical-model collaborator of detect_jenis for one call:
\* model.imported tells that classifier_ml could be imported
\* (USE_ML_CLASSIFIER)
ml_classify(text_, model) ==
    LET answer(a) == [available |-> TRUE, raises |-> FALSE, jenis |-> a[1], conf |-> a[2]]
    IN  IF ~model.imported
        THEN [available |-> FALSE, raises |-> FALSE, jenis |-> "lainnya", conf |-> 0]
        ELSE answer(classify(text_, model))

(***************************************************************************)
(* Specification of the number extractor: extract_nomor_surat is applied   *)
(* to a text and a file name; aux keeps the candidates it generated.       *)
(***************************************************************************)
MaxNomorLines == 3

NomorLines ==
    <<"Nomor: 12/AB.01.02", "No. 5/SM/2024", "34/CD.02.01 dan 56/EF.03", "Nomor: Biasa",
      "05 / KB.03.00", "Diterima 12-12-2025", "Nomor\n: 655-HM.03.04">>

\* nothing, a head that moves the lines below the first 8 lines, a head
\* that moves them below the first 15 lines
NomorHeads == {"", Repeat("x\n", 8), Repeat("x\n", 15)}

NomorFiles == {NONE, "99-ZZ.01 Undangan.pdf", "scan.pdf"}

InitNomor ==
    /\ text \in {h \o b : h \in NomorHeads, b \in Texts(NomorLines, MaxNomorLines)}
    /\ filename \in NomorFiles
    /\ aux = <<>>
    /\ pc = "start"
    /\ result = <<NONE, 0>>
    /\ calls = <<>>

ExtractNomor ==
    /\ pc = "start"
    /\ aux' = TextCandidates(text) \o FilenameCandidates(filename)
    /\ result' = BestNomor(text, filename)
    /\ pc' = "extracted"
    /\ UNCHANGED <<text, filename, calls>>

NextNomor == ExtractNomor

SpecNomor == InitNomor /\ [][NextNomor]_vars

\* C5: extract_nomor_surat returns a candidate of maximum weight among the
\* candidates of all strategies, and among those of maximum weight the one
\* generated first; without a candidate it returns None.
C5_MaxWeightFirstWins ==
    pc = "extracted" =>
        IF aux = <<>> THEN result = <<NONE, 0>>
        ELSE \E k \in 1..Len(aux) :
                /\ result = aux[k]
                /\ \A j \in 1..Len(aux) : aux[j][2] <= aux[k][2]
                /\ \A j \in 1..(k - 1) : aux[j][2] < aux[k][2]

\* C5 happens: two candidates with different values tie at the maximum
\* weight and the earlier one is returned.
C5_Witness ==
    /\ pc = "extracted"
    /\ \E j, k \in 1..Len(aux) :
          /\ j < k /\ aux[j][2] = aux[k][2] /\ aux[j][1] # aux[k][1]
          /\ result = aux[j]
          /\ \A i \in 1..Len(aux) : aux[i][2] <= aux[j][2]

\* C6: when the text yields a candidate, the value returned is a text
\* candidate (never the weight-50 file name candidate), and an accepted
\* label-block candidate (weight 100) is the value returned.
C6_FilenameOnlyWithoutText ==
    pc = "extracted" =>
        LET fromText  == TextCandidates(text)
            fromLabel == LabelCandidates(PreClean(text))
        IN  /\ fromText # <<>> =>
                /\ \E k \in 1..Len(fromText) : result = fromText[k]
                /\ result[2] > 50
            /\ fromLabel # <<>> => result = fromLabel[1] /\ result[2] = 100
            /\ (fromText = <<>> /\ FilenameCandidates(filename) # <<>>) =>
                result = FilenameCandidates(filename)[1]

\* C6 happens: a well-formed file name candidate competes with an accepted
\* label-block candidate of another value, and the label-block value is
\* returned.
C6_Witness ==
    /\ pc = "extracted"
    /\ FilenameCandidates(filename) # <<>>
    /\ LabelCandidates(PreClean(text)) # <<>>
    /\ FilenameCandidates(filename)[1][1] # result[1]
    /\ result = LabelCandidates(PreClean(text))[1]

\* the text holds a Nomor/No/Nomer/Nemor token: one of the words starts at
\* a word boundary (as \b(Nomor|No|Nomer|Nemor) finds it, ignoring case)
HasNomorToken(T) ==
    \E i \in 1..Len(T) : \E w \in {"nomor", "no", "nomer", "nemor"} :
        WordBoundary(T, i) /\ At(Lower(T), i, w)

\* C25: for a text without a Nomor/No/Nomer/Nemor token no candidate of
\* weight 95 is generated; the returned number comes from the scan of the
\* first 15 lines (weight at most 75) or from the file name (weight 50) and
\* is the full digits-separator-code token.
C25_Weight95OnlyAfterNomorToken ==
    (pc = "extracted" /\ ~HasNomorToken(PreClean(text))) =>
        /\ \A k \in 1..Len(aux) : aux[k][2] # 95
        /\ result[1] # NONE =>
               /\ result[2] <= 75
               /\ NumberEnd(result[1], 1, 1) = Len(result[1]) + 1

(***************************************************************************)
(* Specification of the type classifier: detect_jenis is applied to a      *)
(* text, a number, a file name and a state of the statistical model.       *)
(***************************************************************************)
MaxJenisLines == 3

JenisLines ==
    <<"KELURAHAN PELA MAMPANG", "PEMERINTAH KOTA ADMINISTRASI", "PT. Maju Jaya",
      "Nomor: 12", "Kepada Yth. Lurah Pela Mampang", "Kepada Yth. Bapak Camat",
      "PAPARAN KINERJA", "Sehubungan dengan kegiatan kerja bakti warga">>

\* heads that open with a number label and put the next line on line 10,
\* on line 11, and beyond the first 1000 characters
JenisHeads ==
    {"Nomor: 12\n" \o Repeat("x\n", 8), "Nomor: 12\n" \o Repeat("x\n", 9),
     "Nomor: 12\n" \o Repeat(Repeat("xxxxxxxxxx", 10) \o "\n", 10)}

JenisNomors == {NONE, "12/AB.01.02", "5/SM/2024"}

JenisFiles == {NONE, "surat masuk.pdf", "12_sk.pdf"}

\* the statistical model is absent, raises, answers above the bar, answers
\* at the bar
MlChoices ==
    {[available |-> FALSE, raises |-> FALSE, jenis |-> "lainnya", conf |-> 0],
     [available |-> TRUE, raises |-> TRUE, jenis |-> "lainnya", conf |-> 0],
     [available |-> TRUE, raises |-> FALSE, jenis |-> "masuk", conf |-> 90],
     [available |-> TRUE, raises |-> FALSE, jenis |-> "keluar", conf |-> 80]}

InitJenis ==
    /\ \/ /\ text \in Texts(JenisLines, MaxJenisLines)
          /\ filename \in JenisFiles
          /\ aux \in [nomor : JenisNomors, ml : MlChoices]
       \/ /\ text \in {h \o b : h \in JenisHeads, b \in Texts(JenisLines, 1)}
          /\ filename = NONE
          /\ aux \in [nomor : {NONE}, ml : MlChoices]
    /\ pc = "start"
    /\ result = <<NONE, 0, NONE>>
    /\ calls = <<>>

\* detect_jenis gets as far as calling ml_classify: no earlier check has
\* returned, USE_ML_CLASSIFIER is set and len(text.strip()) > 50
ml_consulted(t, nomor, fname, ml) ==
    LET reached(T) ==
            /\ ~NonLetterKeyword(T)
            /\ has_nomor_label(T)
            /\ KopRule(T) = <<>>
            /\ NomorRule(nomor) = <<>>
            /\ HeaderRule(T) = <<>>
            /\ FilenameRule(fname) = <<>>
    IN  ml.available /\ Len(Strip(t, WS)) > 50 /\ reached(_clean_text(t))

DetectJenis ==
    /\ pc = "start"
    /\ result' = detect_jenis(text, aux.nomor, filename, aux.ml)
    /\ calls' = IF ml_consulted(text, aux.nomor, filename, aux.ml)
                THEN <<"ml_classify">> ELSE <<>>
    /\ pc' = "classified"
    /\ UNCHANGED <<text, filename, aux>>

NextJenis == DetectJenis

SpecJenis == InitJenis /\ [][NextJenis]_vars

\* the eight checks of the cascade, each with whether it fires and what it
\* then returns
CascadeChecks ==
    LET T      == _clean_text(text)
        kop    == KopRule(T)
        shape  == NomorRule(aux.nomor)
        header == HeaderRule(T)
        hint   == FilenameRule(filename)
        model  == MlRule(text, aux.ml)
    IN  << <<NonLetterKeyword(T), <<"lainnya", 90, "non-letter-keywords">> >>,
           <<~has_nomor_label(T), <<"lainnya", 85, "no-nomor-label">> >>,
           <<kop # <<>>, kop>>,
           <<shape # <<>>, shape>>,
           <<header # <<>>, header>>,
           <<hint # <<>>, hint>>,
           <<model # <<>>, model>>,
           <<TRUE, <<"lainnya", 60, "default-fallback">> >> >>

C3_NoLabelAlwaysNoNomorLabel ==
    (pc = "classified" /\ ~has_nomor_label(text)) =>
        result = <<"lainnya", 85, "no-nomor-label">>

\* C3 (amended): a text whose cleaned form has no Nomor/No label and no
\* non-letter keyword in its first 500 characters is classified
\* ("lainnya", 0.85, "no-nomor-label"), whatever the number, the file name
\* and the rest of the text.
C3_NoLabelNoKeyword ==
    pc = "classified" =>
        LET T == _clean_text(text)
        IN  (~has_nomor_label(T) /\ ~NonLetterKeyword(T)) =>
                result = <<"lainnya", 85, "no-nomor-label">>

\* C3 happens: a text without label and keyword, with the home letterhead,
\* a number of the outgoing shape and a file name hint, is classified
\* no-nomor-label.
C3_Witness ==
    /\ pc = "classified"
    /\ result = <<"lainnya", 85, "no-nomor-label">>
    /\ NomorRule(aux.nomor) # <<>>
    /\ FilenameRule(filename) # <<>>
    /\ LET T == _clean_text(text)
       IN  /\ ~has_nomor_label(T)
           /\ ~NonLetterKeyword(T)
           /\ has_kop_pela_mampang_top(T)

\* C4 (as stated): a text with the home letterhead in its first 10 lines
\* and no recipient pattern in its first 1000 characters is classified
\* ("keluar", 0.95, "kop-pela-mampang").
C4_KopAlwaysKeluar ==
    pc = "classified" =>
        LET T == _clean_text(text)
        IN  (has_kop_pela_mampang_top(T) /\ ~is_recipient_pela_mampang(T)) =>
                result = <<"keluar", 95, "kop-pela-mampang">>

\* C4 (amended): such a text is classified ("keluar", 0.95,
\* "kop-pela-mampang") when, in addition, its cleaned form has a Nomor/No
\* label and no non-letter keyword in its first 500 characters.
C4_KopAfterKeywordAndLabel ==
    pc = "classified" =>
        LET T == _clean_text(text)
        IN  (/\ has_kop_pela_mampang_top(T)
             /\ ~is_recipient_pela_mampang(T)
             /\ has_nomor_label(T)
             /\ ~NonLetterKeyword(T)) =>
                result = <<"keluar", 95, "kop-pela-mampang">>

\* C4 happens: a labelled text with the home letterhead and no recipient
\* pattern is classified by the letterhead although the number has the
\* incoming SM shape and the file name hints at an incoming letter.
C4_Witness ==
    /\ pc = "classified"
    /\ result = <<"keluar", 95, "kop-pela-mampang">>
    /\ NomorRule(aux.nomor) = <<"masuk", 90, "nomor-pattern-SM">>
    /\ FilenameRule(filename) = <<"masuk", 70, "filename-hint">>
    /\ LET T == _clean_text(text)
       IN  /\ has_kop_pela_mampang_top(T)
           /\ ~is_recipient_pela_mampang(T)
           /\ has_nomor_label(T)

MaxRecipientLines == 4

RecipientLines ==
    <<"PEMERINTAH KOTA ADMINISTRASI", "Nomor: 12", "Kepada Yth. Lurah Pela Mampang",
      "Kepada Yth. Bapak Camat", "KELURAHAN PELA MAMPANG", "PAPARAN KINERJA">>

RecipientInputs ==
    [text : Texts(RecipientLines, MaxRecipientLines),
     filename : {NONE, "12_sk.pdf"},
     aux : [nomor : {NONE, "12/AB.01.02"}, ml : MlChoices]]

InitRecipient ==
    /\ \E inp \in RecipientInputs :
          /\ text = inp.text
          /\ filename = inp.filename
          /\ aux = inp.aux
    /\ pc = "start"
    /\ result = <<NONE, 0, NONE>>
    /\ calls = <<>>

NextRecipient == DetectJenis

SpecRecipient == InitRecipient /\ [][NextRecipient]_vars

\* C26 as stated: there is an input in which the home institution is named
\* as recipient and for which detect_jenis returns keluar with confidence
\* 0.80 through the "kepada"+"yth" reclassification of the generic header.
\* The input is sought among all inputs of the specification, whatever the
\* input of the run at hand.
C26_Rule5OverridesRecipient ==
    pc = "classified" =>
        \E inp \in RecipientInputs :
            /\ is_recipient_pela_mampang(_clean_text(inp.text))
            /\ detect_jenis(inp.text, inp.aux.nomor, inp.filename, inp.aux.ml)
                   = <<"keluar", 80, "kepada-yth-pattern">>

\* C26 amended: the generic-header check never overrides the recipient
\* check.  Whenever the home institution is named as recipient, detect_jenis
\* returns (masuk, 0.95, recipient-pela-mampang), unless one of the two
\* checks before the letterhead (non-letter keyword, missing number label)
\* has returned lainnya; it never returns keluar through the
\* "kepada"+"yth" reclassification.
C26_RecipientDecidesBeforeHeader ==
    pc = "classified" =>
        LET holds(T) ==
                is_recipient_pela_mampang(T) =>
                    /\ result # <<"keluar", 80, "kepada-yth-pattern">>
                    /\ \/ result = <<"masuk", 95, "recipient-pela-mampang">>
                       \/ NonLetterKeyword(T) /\ result = <<"lainnya", 90, "non-letter-keywords">>
                       \/ ~has_nomor_label(T) /\ result = <<"lainnya", 85, "no-nomor-label">>
        IN  holds(_clean_text(text))

\* C26 happens: the home institution is the recipient of a letter whose
\* header holds PEMERINTAH, KEPADA and YTH and no home letterhead, the
\* conditions of the reclassification, and the letter is classified masuk
\* by the recipient check.
C26_Witness ==
    /\ pc = "classified"
    /\ result = <<"masuk", 95, "recipient-pela-mampang">>
    /\ LET seen(T) ==
               /\ is_recipient_pela_mampang(T)
               /\ ~has_kop_pela_mampang_top(T)
               /\ Contains(HeaderText(T, 30), "PEMERINTAH")
               /\ Contains(HeaderText(T, 30), "KEPADA")
               /\ Contains(HeaderText(T, 30), "YTH")
       IN  seen(_clean_text(text))

(***************************************************************************)
(* Specification of the type classifier with its collaborator: detect_jenis *)
(* is applied to a text, a number and a file name, and ml_classify is      *)
(* classifier_ml.classify in a state of the statistical model.             *)
(***************************************************************************)
MaxClassifyLines == 3

ClassifyLines ==
    <<"Nomor: 12", "Perihal: Undangan rapat koordinasi", "Lampiran: 1 berkas",
      "Kepada Yth. Bapak Camat", "Demikian kami sampaikan", "Dengan hormat",
      "KELURAHAN PELA MAMPANG", "Sehubungan dengan kegiatan kerja bakti warga">>

\* classifier_ml cannot be imported; no model file; a model that raises;
\* models that answer keluar at 0.85, masuk at 0.65 and lainnya at 0.90
ClassifierStates ==
    {[imported |-> FALSE, loaded |-> FALSE, raises |-> FALSE,
      prediction |-> "masuk", confidence |-> 0],
     [imported |-> TRUE, loaded |-> FALSE, raises |-> FALSE,
      prediction |-> "masuk", confidence |-> 0],
     [imported |-> TRUE, loaded |-> TRUE, raises |-> TRUE,
      prediction |-> "masuk", confidence |-> 0],
     [imported |-> TRUE, loaded |-> TRUE, raises |-> FALSE,
      prediction |-> "keluar", confidence |-> 85],
     [imported |-> TRUE, loaded |-> TRUE, raises |-> FALSE,
      prediction |-> "masuk", confidence |-> 65],
     [imported |-> TRUE, loaded |-> TRUE, raises |-> FALSE,
      prediction |-> "lainnya", confidence |-> 90]}

InitClassify ==
    /\ text \in Texts(ClassifyLines, MaxClassifyLines)
    /\ filename \in {NONE, "surat masuk.pdf"}
    /\ aux \in [nomor : {NONE, "5/SM/2024"}, model : ClassifierStates]
    /\ pc = "start"
    /\ result = <<NONE, 0, NONE>>
    /\ calls = <<>>

DetectJenisWithClassifier ==
    /\ pc = "start"
    /\ LET detect(ml) ==
               /\ result' = detect_jenis(text, aux.nomor, filename, ml)
               /\ calls' = IF ml_consulted(text, aux.nomor, filename, ml)
                           THEN <<"ml_classify">> ELSE <<>>
       IN  detect(ml_classify(text, aux.model))
    /\ pc' = "classified"
    /\ UNCHANGED <<text, filename, aux>>

NextClassify == DetectJenisWithClassifier

SpecClassify == InitClassify /\ [][NextClassify]_vars

\* one of the six checks before the statistical model fires
EarlierCheckFires ==
    LET fired(T) ==
            \/ NonLetterKeyword(T)
            \/ ~has_nomor_label(T)
            \/ KopRule(T) # <<>>
            \/ NomorRule(aux.nomor) # <<>>
            \/ HeaderRule(T) # <<>>
            \/ FilenameRule(filename) # <<>>
    IN  fired(_clean_text(text))

\* C17: when no statistical model is available (classifier_ml cannot be
\* imported, or no model is loaded), detect_jenis never returns the method
\* "ml-classifier", and returns ("lainnya", 0.60, "default-fallback")
\* whenever none of the six earlier checks fires.
C17_NoModelRuleOnly ==
    (pc = "classified" /\ (~aux.model.imported \/ ~aux.model.loaded)) =>
        /\ result[3] # "ml-classifier"
        /\ ~EarlierCheckFires => result = <<"lainnya", 60, "default-fallback">>

(***************************************************************************)
(* Specification of parse_metadata: the extractors run in the order of the *)
(* code on a text, a file name and a state of the statistical model (aux). *)
(***************************************************************************)
MaxParseLines == 3

ParseLines ==
    <<"KELURAHAN PELA MAMPANG", "Nomor: 12/AB.01.02", "No. 5/SM/2024", "No. 7",
      "Rapat 12 orang 2024", "Tanggal: 5 Mei 2024", "Jakarta, 1 Mei 2024",
      "Diterima 01-02-2024", "Laporan kegiatan kerja bakti warga tahun 2023",
      "Perihal: Undangan Rapat">>

ParseFiles == {NONE, "77-XY.03 Undangan Kerja Bakti.pdf"}

InitParse ==
    /\ text \in Texts(ParseLines, MaxParseLines)
    /\ filename \in ParseFiles
    /\ aux \in {m \in MlChoices : ~m.raises}
    /\ pc = "start"
    /\ result = NoParsed
    /\ calls = <<>>

NextParse ==
    \/ ParseNomor
    \/ ParseTanggal
    \/ ParseJenis
    \/ ParsePerihal
    \/ ParseSkipPerihal
    \/ ParseReturn

SpecParse == InitParse /\ [][NextParse]_vars

\* C2: while jenis is "keluar", parse_metadata has not invoked
\* extract_perihal, holds no subject, returns no perihal key and counts no
\* subject in fields_extracted.
C2_NoPerihalForKeluar ==
    result.jenis = "keluar" =>
        /\ \A k \in 1..Len(calls) : calls[k] # "extract_perihal"
        /\ result.perihal = NONE
        /\ "perihal" \notin result.keys
        /\ pc = "done" =>
              result.fields_extracted =
                  (IF Truthy(result.nomor) THEN 1 ELSE 0)
                  + (IF Truthy(result.tanggal_surat) THEN 1 ELSE 0)
                  + (IF result.tahun # 0 THEN 1 ELSE 0) + 1

\* C2 happens: parse_metadata returns for an outgoing letter whose text
\* carries a subject that extract_perihal would have extracted.
C2_Witness ==
    /\ pc = "done"
    /\ result.jenis = "keluar"
    /\ extract_perihal(text, filename) = "Undangan Rapat"
    /\ calls = <<"extract_nomor_surat", "extract_tanggal", "detect_jenis">>

\* C8: tanggal_surat has the form day, month name, year whenever
\* extract_tanggal matched one of the patterns 1 to 3, the 1st of a month
\* included, and is the year alone exactly when the bare-year fallback
\* (pattern 4) produced the date.
C8_DayKeptForExplicitDates ==
    pc = "done" =>
        /\ result.dt.pattern \in 1..3 =>
              result.tanggal_surat = strftime(result.dt, "%d %B %Y")
        /\ result.dt.pattern = 4 <=>
              (result.dt # NoDate /\ result.tanggal_surat = strftime(result.dt, "%Y"))

\* C9 (as stated): the example letter is classified masuk with number
\* "12/AB.01.02", date "05 Mei 2024", year 2024 and subject
\* "Undangan Rapat".
C9_ExampleAsStated ==
    (/\ pc = "done"
     /\ text = "Nomor: 12/AB.01.02\nTanggal: 5 Mei 2024\nPerihal: Undangan Rapat\n"
     /\ FilenameRule(filename) = <<>>) =>
        /\ result.jenis = "masuk"
        /\ result.nomor = "12/AB.01.02"
        /\ result.tanggal_surat = "05 Mei 2024"
        /\ result.tahun = 2024
        /\ result.perihal = "Undangan Rapat"

\* C9 (amended): the example letter is classified keluar (0.90,
\* "nomor-pattern-keluar") by the shape of its number "12/AB.01.02"; its
\* date is "05 May 2024", its year 2024, and the record has no subject.
C9_ExampleOutgoing ==
    (/\ pc = "done"
     /\ text = "Nomor: 12/AB.01.02\nTanggal: 5 Mei 2024\nPerihal: Undangan Rapat\n"
     /\ FilenameRule(filename) = <<>>) =>
        /\ result.jenis = "keluar"
        /\ result.jenis_confidence = 90
        /\ result.jenis_method = "nomor-pattern-keluar"
        /\ result.nomor = "12/AB.01.02"
        /\ result.tanggal_surat = "05 May 2024"
        /\ result.tahun = 2024
        /\ result.perihal = NONE
        /\ "perihal" \notin result.keys

\* C9 happens: parse_metadata has returned for the example letter, given
\* without a file name.
C9_Witness ==
    /\ pc = "done"
    /\ text = "Nomor: 12/AB.01.02\nTanggal: 5 Mei 2024\nPerihal: Undangan Rapat\n"
    /\ filename = NONE
    /\ result.fields_extracted = 4

(***************************************************************************)
(* Specification of the quality scoring: aux holds a parsed record, the    *)
(* length of the text, ocr_used and the OCR statistics.                    *)
(***************************************************************************)
\* records parse_metadata can return, reduced to what the scoring reads
QualityParsed ==
    {p \in [nomor : {NONE, "12/AB.01.02"},
            tanggal_surat : {NONE, "2024", "05 May 2024"},
            tahun : {0, 2024},
            jenis : {"masuk", "keluar", "lainnya"},
            perihal : {NONE, "Undangan Rapat", "Tidak ada perihal"},
            keys : {{"nomor"}, {"nomor", "perihal"}}] :
        /\ (p.tahun = 0) <=> (p.tanggal_surat = NONE)
        /\ ("perihal" \in p.keys) <=> (p.jenis # "keluar")
        /\ p.jenis = "keluar" => p.perihal = NONE}

\* success_rate in tenths of a percent
QualityOcrStats ==
    {[present |-> FALSE, success_rate |-> 0]}
        \cup [present : {TRUE}, success_rate : {0, 333, 499, 500, 1000}]

\* OCR that was not invoked leaves no statistics, OCR that returned no text
\* had no successful page, and ocr_used is set only for a non-empty OCR
\* text, which has statistics and a successful page
InitQuality ==
    /\ text = ""
    /\ filename = NONE
    /\ aux \in {a \in [parsed : QualityParsed, text_length : {0, 99, 100, 299, 300},
                       ocr_used : BOOLEAN, ocr_stats : QualityOcrStats] :
                    /\ ~a.ocr_used => (~a.ocr_stats.present \/ a.ocr_stats.success_rate = 0)
                    /\ a.ocr_used => /\ a.text_length > 0
                                     /\ a.ocr_stats.present
                                     /\ a.ocr_stats.success_rate > 0}
    /\ pc = "start"
    /\ result = [score |-> 0, warnings |-> <<>>, trace |-> <<>>]
    /\ calls = <<>>

AssessQuality ==
    /\ pc = "start"
    /\ result' = metadata_quality(aux.parsed, aux.text_length, aux.ocr_used, aux.ocr_stats)
    /\ pc' = "scored"
    /\ UNCHANGED <<text, filename, aux, calls>>

NextQuality == AssessQuality

SpecQuality == InitQuality /\ [][NextQuality]_vars

\* C10: a record with a number, a date, a year and jenis masuk but no
\* subject scores 30+20+10+10 = 70 before the penalties, and no warning
\* about the subject is recorded.
C10_MasukWithoutSubjectScores70 ==
    (/\ pc = "scored"
     /\ aux.parsed.nomor # NONE
     /\ aux.parsed.tanggal_surat # NONE
     /\ aux.parsed.tahun # 0
     /\ aux.parsed.jenis = "masuk"
     /\ aux.parsed.perihal = NONE) =>
        /\ result.trace[6] = 70
        /\ \A k \in 1..Len(result.warnings) :
              result.warnings[k] # "Perihal tidak terdeteksi (wajib untuk surat keluar)"
        /\ (aux.text_length >= 300 /\ ~aux.ocr_used) =>
              (result.score = 70 /\ result.warnings = <<>>)

\* C10 happens: such a record of a long, natively extracted text has been
\* scored 70 without a warning.
C10_Witness ==
    /\ pc = "scored"
    /\ aux.parsed.nomor = "12/AB.01.02"
    /\ aux.parsed.tanggal_surat = "05 May 2024"
    /\ aux.parsed.jenis = "masuk"
    /\ aux.parsed.perihal = NONE
    /\ aux.text_length = 300
    /\ ~aux.ocr_used
    /\ result.score = 70
    /\ result.warnings = <<>>

\* C11: the score is an integer from 0 to 100 after every step of the
\* computation (the start, each field check, the subject, the text
\* penalty, the OCR penalty) and at the end.
C11_ScoreInRange ==
    pc = "scored" =>
        /\ Len(result.trace) = 8
        /\ \A k \in 1..Len(result.trace) : result.trace[k] \in 0..100
        /\ result.score \in 0..100
        /\ result.score = result.trace[8]

\* C11 happens: a record with nothing but its jenis scored 10, and the
\* penalty of 15 for a short text stopped at 0.
C11_Witness ==
    /\ pc = "scored"
    /\ aux.text_length = 99
    /\ result.trace[6] = 10
    /\ result.trace[7] = 0
    /\ result.score = 0

\* the warning w is among the warnings of the scored record
Warned(w) == \E k \in 1..Len(result.warnings) : result.warnings[k] = w

\* the penalty for a text under 100 characters was applied to the score
ShortTextPenalty ==
    /\ result.trace[7] = (IF result.trace[6] < 15 THEN 0 ELSE result.trace[6] - 15)
    /\ Warned("Teks terekstrak sangat pendek (kualitas OCR buruk)")

\* the penalty for a low OCR success rate is applied exactly when OCR was
\* used and the rate is under 50%
LowRatePenalty ==
    IF aux.ocr_used /\ aux.ocr_stats.success_rate < 500
    THEN /\ result.trace[8] = (IF result.trace[7] < 10 THEN 0 ELSE result.trace[7] - 10)
         /\ Warned("OCR success rate rendah")
    ELSE /\ result.trace[8] = result.trace[7]
         /\ ~Warned("OCR success rate rendah")

\* C12 as stated: each penalty is applied whenever its own condition holds;
\* 15 for a text under 100 characters, 5 more for an OCR-derived text under
\* 300 characters, 10 for a success rate under 50%, each with its warning.
C12_EachPenaltyOnItsOwnCondition ==
    pc = "scored" =>
        /\ aux.text_length < 100 =>
              Warned("Teks terekstrak sangat pendek (kualitas OCR buruk)")
        /\ (aux.ocr_used /\ aux.text_length < 300) =>
              Warned("Teks hasil OCR kurang lengkap")
        /\ LowRatePenalty
        /\ result.score >= 0

\* C12: the two text penalties are alternatives: 15 for a text under 100
\* characters, and 5 only for an OCR-derived text of 100 to 299 characters;
\* 10 for OCR with a success rate under 50%; each applied penalty stops at 0
\* and appends its warning, and no other penalty is applied.
C12_TextPenaltiesAreAlternatives ==
    pc = "scored" =>
        /\ aux.text_length < 100 =>
              /\ ShortTextPenalty
              /\ ~Warned("Teks hasil OCR kurang lengkap")
        /\ (aux.ocr_used /\ aux.text_length >= 100 /\ aux.text_length < 300) =>
              /\ result.trace[7] = (IF result.trace[6] < 5 THEN 0 ELSE result.trace[6] - 5)
              /\ Warned("Teks hasil OCR kurang lengkap")
              /\ ~Warned("Teks terekstrak sangat pendek (kualitas OCR buruk)")
        /\ (aux.text_length >= 300 \/ (~aux.ocr_used /\ aux.text_length >= 100)) =>
              /\ result.trace[7] = result.trace[6]
              /\ ~Warned("Teks hasil OCR kurang lengkap")
              /\ ~Warned("Teks terekstrak sangat pendek (kualitas OCR buruk)")
        /\ LowRatePenalty
        /\ result.score >= 0

\* C12 happens: an OCR-derived text of 99 characters with a success rate of
\* 33.3% lost 15 and then 10, and not 5.
C12_Witness ==
    /\ pc = "scored"
    /\ aux.ocr_used
    /\ aux.text_length = 99
    /\ aux.ocr_stats.success_rate = 333
    /\ result.trace[6] = 70
    /\ result.trace[7] = 55
    /\ result.score = 45
    /\ ~Warned("Teks hasil OCR kurang lengkap")

(***************************************************************************)
(* Specification of the foldering of upload_document: aux holds the final  *)
(* year (0 for None), type and month (NONE for None) and the slug of the   *)
(* number; the folder is relative to the storage root.                     *)
(***************************************************************************)
\* a variant of base_dir that files by month also without a year
base_dir_month_without_year(tahun_final, jenis_final, bulan_final, slug) ==
    IF tahun_final # 0 /\ Truthy(bulan_final)
    THEN Join(<<Digits(tahun_final), jenis_final, bulan_final, slug>>, "/")
    ELSE IF Truthy(bulan_final)
    THEN Join(<<jenis_final, bulan_final, slug>>, "/")
    ELSE IF tahun_final # 0
    THEN Join(<<Digits(tahun_final), jenis_final, slug>>, "/")
    ELSE Join(<<jenis_final, slug>>, "/")

\* base_dir under settings.STORAGE_ROOT_DIR
base_dir(tahun_final, jenis_final, bulan_final, slug) ==
    IF tahun_final # 0 /\ Truthy(bulan_final)
    THEN Join(<<Digits(tahun_final), jenis_final, bulan_final, slug>>, "/")
    ELSE IF tahun_final # 0
    THEN Join(<<Digits(tahun_final), jenis_final, slug>>, "/")
    ELSE Join(<<jenis_final, slug>>, "/")

FolderYears == {0, 2023, 2024}

FolderMonths == {NONE, "Januari", "Mei"}

FolderSlugs == {"12-ab-01-02", "470-sm-2023", "005-und", "tanpa-nomor"}

InitFolder ==
    /\ text = ""
    /\ filename = NONE
    /\ aux \in [tahun_final : FolderYears, jenis_final : {"masuk", "keluar", "lainnya"},
                bulan_final : FolderMonths, slug : FolderSlugs]
    /\ pc = "start"
    /\ result = NONE
    /\ calls = <<>>

ComputeFolder ==
    /\ pc = "start"
    /\ result' = base_dir(aux.tahun_final, aux.jenis_final, aux.bulan_final, aux.slug)
    /\ pc' = "foldered"
    /\ UNCHANGED <<text, filename, aux, calls>>

NextFolder == ComputeFolder

SpecFolder == InitFolder /\ [][NextFolder]_vars

\* C13: the folder is determined by (tahun, jenis, bulan, slug): with year
\* and month it is tahun/jenis/bulan/slug, with a year and no month it is
\* tahun/jenis/slug, and without a year it is jenis/slug, also when a month
\* is present; (2024, masuk, Mei, 12-ab-01-02) gives
\* 2024/masuk/Mei/12-ab-01-02.
C13_FolderMapping ==
    pc = "foldered" =>
        /\ (aux.tahun_final # 0 /\ aux.bulan_final # NONE) =>
              result = Digits(aux.tahun_final) \o "/" \o aux.jenis_final \o "/"
                          \o aux.bulan_final \o "/" \o aux.slug
        /\ (aux.tahun_final # 0 /\ aux.bulan_final = NONE) =>
              result = Digits(aux.tahun_final) \o "/" \o aux.jenis_final \o "/" \o aux.slug
        /\ aux.tahun_final = 0 => result = aux.jenis_final \o "/" \o aux.slug
        /\ (/\ aux.tahun_final = 2024 /\ aux.jenis_final = "masuk"
            /\ aux.bulan_final = "Mei" /\ aux.slug = "12-ab-01-02") =>
              result = "2024/masuk/Mei/12-ab-01-02"

\* C13 happens: a document with a month and no year was filed under
\* jenis/slug.
C13_Witness ==
    /\ pc = "foldered"
    /\ aux.tahun_final = 0
    /\ aux.bulan_final = "Mei"
    /\ aux.jenis_final = "masuk"
    /\ aux.slug = "12-ab-01-02"
    /\ result = "masuk/12-ab-01-02"

(***************************************************************************)
(* OCR of a scanned PDF: ocr_pdf_to_text (ocr.py 42-158)                   *)
(*                                                                         *)
(* The document and the OCR libraries are the environment of the call: the *)
(* dependencies that failed to import, whether fitz.open succeeds, and for *)
(* each page what its steps do.  A page is one of                          *)
(*   "text"           recognised with the configured language              *)
(*   "blank"          recognised, only white space came out                *)
(*   "empty"          recognised, nothing came out                         *)
(*   "render_raises"  page.get_pixmap raises                               *)
(*   "process_raises" writing or opening the page image raises             *)
(*   "fallback_text"  the language pass raises, the default pass answers   *)
(*   "fallback_blank" the language pass raises, the default pass is blank  *)
(*   "ocr_raises"     both recognition passes raise                        *)
(***************************************************************************)
PageKinds ==
    {"text", "blank", "empty", "render_raises", "process_raises",
     "fallback_text", "fallback_blank", "ocr_raises"}

\* what pytesseract.image_to_string answers for page page_number
PageText(kind, page_number) ==
    CASE kind \in {"text", "fallback_text"} -> "Halaman " \o Digits(page_number) \o "\n"
      [] kind \in {"blank", "fallback_blank"} -> " \n"
      [] OTHER -> ""

\* a variant of ocr_page that does not count a page that failed to render
ocr_page_render_uncounted(acc, kind, page_number) ==
    LET txt == PageText(kind, page_number)
        page_success == Strip(txt, WS) # ""
        seen == [acc EXCEPT !.processed = @ + 1]
    IN  IF kind = "render_raises" THEN seen
        ELSE IF kind = "process_raises"
        THEN [seen EXCEPT !.text_chunks = Append(@, "")]
        ELSE [seen EXCEPT !.text_chunks = Append(@, txt),
                          !.success_pages = IF page_success THEN @ + 1 ELSE @,
                          !.failed_pages = IF page_success THEN @ ELSE @ + 1]

\* one round of the page loop
ocr_page(acc, kind, page_number) ==
    LET txt == PageText(kind, page_number)
        page_success == Strip(txt, WS) # ""
        seen == [acc EXCEPT !.processed = @ + 1]
    IN  IF kind = "render_raises"
        THEN [seen EXCEPT !.failed_pages = @ + 1]
        ELSE IF kind = "process_raises"
        THEN [seen EXCEPT !.text_chunks = Append(@, "")]
        ELSE [seen EXCEPT !.text_chunks = Append(@, txt),
                          !.success_pages = IF page_success THEN @ + 1 ELSE @,
                          !.failed_pages = IF page_success THEN @ ELSE @ + 1]

\* for page_number, page in enumerate(doc, start=1)
RECURSIVE PageLoop(_, _, _)
PageLoop(acc, pages, page_number) ==
    IF page_number > Len(pages) THEN acc
    ELSE PageLoop(ocr_page(acc, pages[page_number], page_number), pages, page_number + 1)

\* [t for t in text_chunks if t and t.strip()]
NonBlankChunks(text_chunks) ==
    SelectSeq(text_chunks, LAMBDA t : Strip(t, WS) # "")

\* a variant of success_rate that drops the second decimal
success_rate_truncated(success_pages, total_pages) ==
    IF total_pages > 0 THEN (success_pages * 1000) \div total_pages ELSE 0

\* round(success_pages / total_pages * 100, 1) if total_pages > 0 else 0,
\* in tenths of a percent; a tie goes to the even tenth (as the floating
\* point computation does for every document of up to 79 pages)
success_rate(success_pages, total_pages) ==
    IF total_pages > 0
    THEN LET q == (success_pages * 1000) \div total_pages
             r == (success_pages * 1000) % total_pages
         IN  IF 2 * r < total_pages THEN q
             ELSE IF 2 * r > total_pages THEN q + 1
             ELSE IF q % 2 = 0 THEN q ELSE q + 1
    ELSE 0

\* the statistics as they are when the function starts; keys are the keys
\* of the dictionary, an absent error is NONE
OcrStatsStart ==
    [total_pages |-> 0, success_pages |-> 0, failed_pages |-> 0, total_chars |-> 0,
     success_rate |-> 0, error |-> NONE,
     keys |-> {"total_pages", "success_pages", "failed_pages", "total_chars", "dpi",
               "language", "method"}]

\* a variant of OcrError that reports no error
OcrError_silent(stats, message) == [text |-> "", processed |-> 0, stats |-> stats]

\* return "", {**ocr_stats, "error": message}
OcrError(stats, message) ==
    [text |-> "", processed |-> 0,
     stats |-> [stats EXCEPT !.error = message, !.keys = @ \cup {"error"}]]

\* ocr_pdf_to_text(path): env.missing are the dependencies that are None,
\* env.opens tells whether fitz.open succeeds, env.pages are the pages
ocr_pdf_to_text(env) ==
    LET finish(acc, joined) ==
            [text |-> Strip(joined, WS), processed |-> acc.processed,
             stats |-> [OcrStatsStart EXCEPT
                          !.total_pages = Len(env.pages),
                          !.success_pages = acc.success_pages,
                          !.failed_pages = acc.failed_pages,
                          !.total_chars = Len(joined),
                          !.success_rate = success_rate(acc.success_pages, Len(env.pages)),
                          !.keys = @ \cup {"success_rate"}]]
        loop(acc) == finish(acc, Join(NonBlankChunks(acc.text_chunks), "\n"))
    IN  IF "pytesseract" \in env.missing
        THEN OcrError(OcrStatsStart, "pytesseract not available")
        ELSE IF "fitz" \in env.missing
        THEN OcrError(OcrStatsStart, "PyMuPDF not available")
        ELSE IF "Image" \in env.missing
        THEN OcrError(OcrStatsStart, "PIL/Pillow not available")
        ELSE IF ~env.opens
        THEN OcrError(OcrStatsStart, "cannot open")
        ELSE loop(PageLoop([text_chunks |-> <<>>, success_pages |-> 0,
                            failed_pages |-> 0, processed |-> 0], env.pages, 1))

(***************************************************************************)
(* Specification of the OCR: ocr_pdf_to_text is applied to a document of   *)
(* at most MaxPages pages in an environment of dependencies.               *)
(***************************************************************************)
MaxPages == 4

RECURSIVE SeqsUpTo(_, _)
SeqsUpTo(A, n) ==
    IF n = 0 THEN {<<>>}
    ELSE LET P == SeqsUpTo(A, n - 1)
         IN  P \cup {Append(s, c) : s \in P, c \in A}

OcrDependencies == {"pytesseract", "fitz", "Image"}

\* the pages matter only for a document that gets opened
OcrEnvironments(n) ==
    [missing : {{}}, opens : {TRUE}, pages : SeqsUpTo(PageKinds, n)]
        \cup {e \in [missing : SUBSET OcrDependencies, opens : BOOLEAN, pages : {<<>>}] :
                e.missing # {} \/ ~e.opens}

InitOcr ==
    /\ text = ""
    /\ filename = NONE
    /\ aux \in OcrEnvironments(MaxPages)
    /\ pc = "start"
    /\ result = <<>>
    /\ calls = <<>>

RunOcr ==
    /\ pc = "start"
    /\ result' = ocr_pdf_to_text(aux)
    /\ pc' = "returned"
    /\ UNCHANGED <<text, filename, aux, calls>>

NextOcr == RunOcr

SpecOcr == InitOcr /\ [][NextOcr]_vars

\* the document of the call was opened and its pages were looped over
OcrOpened == pc = "returned" /\ aux.missing = {} /\ aux.opens

\* the numbers of the pages whose kind is in kinds, in page order
PagesOfKind(kinds) ==
    SelectSeq([k \in 1..Len(aux.pages) |-> k], LAMBDA k : aux.pages[k] \in kinds)

\* C14: a page that raises while it is rendered or recognised is counted
\* in failed_pages and contributes no text, every page of the document is
\* still processed, and the call returns normally with the text of the
\* successful pages, in page order.
C14_PageFailuresIsolated ==
    OcrOpened =>
        LET raised == PagesOfKind({"render_raises", "ocr_raises"})
            unread == PagesOfKind({"blank", "empty", "fallback_blank"})
            good   == PagesOfKind({"text", "fallback_text"})
        IN  /\ result.processed = Len(aux.pages)
            /\ result.stats.error = NONE
            /\ "error" \notin result.stats.keys
            /\ result.stats.failed_pages = Len(raised) + Len(unread)
            /\ result.stats.success_pages = Len(good)
            /\ result.text =
                 Strip(Join([i \in 1..Len(good) |-> "Halaman " \o Digits(good[i]) \o "\n"],
                            "\n"), WS)

\* C14 happens: the first page failed to render and the third could not be
\* recognised; the second and the fourth were read.
C14_Witness ==
    /\ OcrOpened
    /\ aux.pages = <<"render_raises", "text", "ocr_raises", "fallback_text">>
    /\ result.stats.failed_pages = 2
    /\ result.stats.success_pages = 2
    /\ result.text = "Halaman 2\n\nHalaman 4"

\* C15: when the call completes, success_rate is success_pages /
\* total_pages * 100 to one decimal (the nearest tenth), 0 for a document
\* without pages, and 75.0 for 3 successful pages of 4.
C15_SuccessRate ==
    OcrOpened =>
        LET s == result.stats.success_pages
            t == result.stats.total_pages
            r == result.stats.success_rate
            d == r * t - 1000 * s
        IN  /\ "success_rate" \in result.stats.keys
            /\ t = Len(aux.pages)
            /\ t = 0 => r = 0
            /\ t > 0 => (2 * d <= t /\ 2 * (0 - d) <= t)
            /\ (t = 4 /\ s = 3) => r = 750

\* C15 happens: three pages of four were read and the rate is 75.0.
C15_Witness ==
    /\ OcrOpened
    /\ aux.pages = <<"text", "text", "blank", "text">>
    /\ result.stats.success_pages = 3
    /\ result.stats.total_pages = 4
    /\ result.stats.success_rate = 750

\* C28: on every run that opens the document each page is counted exactly
\* once, as a success or as a failure, whatever step of its processing
\* failed: success_pages + failed_pages = total_pages at the return.
C28_PageAccountingComplete ==
    OcrOpened =>
        /\ result.stats.total_pages = Len(aux.pages)
        /\ result.stats.success_pages + result.stats.failed_pages
               = result.stats.total_pages

(***************************************************************************)
(* Text extraction with OCR fallback: TextExtractor.extract_text_and_save  *)
(* (text_extraction.py 40-170)                                             *)
(*                                                                         *)
(* The parsers and the OCR are the environment of the call:                *)
(*   env.mime_type     the MIME type of the upload                         *)
(*   env.native        what the parser returns as text (NONE for None)     *)
(*   env.is_scanned    the flag of the PDF parser                          *)
(*   env.parser_raises the DOCX parser raises                              *)
(*   env.external      the external OCR function: "none" when the          *)
(*                     extractor has none, else "text", "blank", "raises"  *)
(*   env.ocr_import    importing app.services.ocr succeeds                 *)
(*   env.ocr           the environment of ocr_pdf_to_text                  *)
(***************************************************************************)
PDF_MIME == "application/pdf"

DOCX_MIME == "application/vnd.openxmlformats-officedocument.wordprocessingml.document"

\* len(s.split())
WordCount(s) ==
    Cardinality({i \in 1..Len(s) : Ch(s, i) \notin WS /\ (i = 1 \/ Ch(s, i - 1) \in WS)})

\* a variant of needs_ocr that does not look at the scanned flag
needs_ocr_any_pdf(is_scanned, text_content) == WordCount(text_content) < 50

\* needs_ocr = is_scanned and word_count < 50
needs_ocr(is_scanned, text_content) == is_scanned /\ WordCount(text_content) < 50

\* the OCR step of a PDF that needs it: the text and the statistics, <<>>
\* for no statistics
OcrFallback(env) ==
    LET internal(r) == [ocr_text |-> r.text, ocr_stats |-> <<r.stats>>]
        failed(message) ==
            [ocr_text |-> "",
             ocr_stats |-> << [OcrStatsStart EXCEPT !.error = message, !.keys = {"error"}] >>]
    IN  IF env.external # "none"
        THEN IF env.external = "raises" THEN failed("external OCR failed")
             ELSE [ocr_text |-> IF env.external = "text" THEN " Teks OCR luar \n" ELSE " \n",
                   ocr_stats |-> << [OcrStatsStart EXCEPT !.keys = {"method"}] >>]
        ELSE IF ~env.ocr_import THEN failed("Import error")
        ELSE internal(ocr_pdf_to_text(env.ocr))

\* extract_text_and_save: (text_path, text_content, ocr_used, ocr_stats);
\* ocr_invoked records whether the OCR step ran, text_path is relative to
\* base_dir (NONE when no text was written)
extract_text_and_save(env) ==
    LET returns(text_content, ocr_used, ocr_stats, ocr_invoked) ==
            [text_path |-> IF text_content # "" THEN "text.txt" ELSE NONE,
             text_content |-> text_content, ocr_used |-> ocr_used,
             ocr_stats |-> ocr_stats, ocr_invoked |-> ocr_invoked]
        fallback(text_content, o) ==
            IF o.ocr_text # "" /\ Strip(o.ocr_text, WS) # ""
            THEN returns(o.ocr_text, TRUE, o.ocr_stats, TRUE)
            ELSE returns(text_content, FALSE, o.ocr_stats, TRUE)
        pdf(text_content) ==
            IF needs_ocr(env.is_scanned, text_content)
            THEN fallback(text_content, OcrFallback(env))
            ELSE returns(text_content, FALSE, <<>>, FALSE)
        native == IF env.native = NONE THEN "" ELSE Strip(env.native, WS)
    IN  IF env.mime_type = PDF_MIME THEN pdf(native)
        ELSE IF env.mime_type = DOCX_MIME
        THEN returns(IF env.parser_raises THEN "" ELSE native, FALSE, <<>>, FALSE)
        ELSE returns("", FALSE, <<>>, FALSE)

(***************************************************************************)
(* Specification of the text extraction: extract_text_and_save is applied  *)
(* to an upload in an environment of parsers and OCR; the scanned          *)
(* documents have at most MaxExtractPages pages.                           *)
(***************************************************************************)
MaxExtractPages == 1

\* texts of the parsers: None, nothing, one padded line, 49 and 50 words
NativeTexts == {NONE, "", "  Surat Undangan \n", Repeat("a ", 49), Repeat("a ", 50)}

\* an OCR environment for the calls that do not reach ocr_pdf_to_text
NoOcr == [missing |-> {}, opens |-> TRUE, pages |-> <<>>]

ExtractEnvironments ==
    [mime_type : {PDF_MIME}, native : NativeTexts, is_scanned : BOOLEAN,
     parser_raises : {FALSE}, external : {"none"}, ocr_import : {TRUE},
     ocr : OcrEnvironments(MaxExtractPages)]
    \cup [mime_type : {PDF_MIME}, native : NativeTexts, is_scanned : BOOLEAN,
          parser_raises : {FALSE}, external : {"text", "blank", "raises"},
          ocr_import : {TRUE}, ocr : {NoOcr}]
    \cup [mime_type : {PDF_MIME}, native : NativeTexts, is_scanned : BOOLEAN,
          parser_raises : {FALSE}, external : {"none"}, ocr_import : {FALSE},
          ocr : {NoOcr}]
    \cup [mime_type : {DOCX_MIME}, native : NativeTexts, is_scanned : {FALSE},
          parser_raises : {FALSE}, external : {"none"}, ocr_import : {TRUE},
          ocr : {NoOcr}]
    \cup [mime_type : {DOCX_MIME}, native : {NONE}, is_scanned : {FALSE},
          parser_raises : {TRUE}, external : {"none"}, ocr_import : {TRUE},
          ocr : {NoOcr}]

InitExtract ==
    /\ text = ""
    /\ filename = NONE
    /\ aux \in ExtractEnvironments
    /\ pc = "start"
    /\ result = <<>>
    /\ calls = <<>>

ExtractText ==
    /\ pc = "start"
    /\ result' = extract_text_and_save(aux)
    /\ pc' = "extracted"
    /\ UNCHANGED <<text, filename, aux, calls>>

NextExtract == ExtractText

SpecExtract == InitExtract /\ [][NextExtract]_vars

\* the text the parser extracted, as extract_text_and_save keeps it
NativeText ==
    IF aux.parser_raises \/ aux.native = NONE THEN "" ELSE Strip(aux.native, WS)

\* C19: when an OCR dependency is missing, ocr_pdf_to_text does not raise
\* but returns no text and statistics whose error names a missing
\* dependency, and extract_text_and_save returns the native text with
\* ocr_used false.
C19_MissingDependency ==
    (/\ pc = "extracted" /\ result.ocr_invoked
     /\ aux.external = "none" /\ aux.ocr_import /\ aux.ocr.missing # {}) =>
        /\ Len(result.ocr_stats) = 1
        /\ "error" \in result.ocr_stats[1].keys
        /\ \/ result.ocr_stats[1].error = "pytesseract not available"
                 /\ "pytesseract" \in aux.ocr.missing
           \/ result.ocr_stats[1].error = "PyMuPDF not available"
                 /\ "fitz" \in aux.ocr.missing
           \/ result.ocr_stats[1].error = "PIL/Pillow not available"
                 /\ "Image" \in aux.ocr.missing
        /\ ~result.ocr_used
        /\ result.text_content = NativeText

\* C19 happens: PyMuPDF is missing for a scanned PDF with a short native
\* text, and that text is returned.
C19_Witness ==
    /\ pc = "extracted"
    /\ aux.ocr.missing = {"fitz"}
    /\ aux.native = "  Surat Undangan \n"
    /\ result.ocr_invoked
    /\ ~result.ocr_used
    /\ result.text_content = "Surat Undangan"
    /\ result.ocr_stats[1].error = "PyMuPDF not available"

\* C20: the OCR is invoked exactly for a PDF that is flagged as scanned and
\* whose native text has fewer than 50 words; ocr_used is true exactly when
\* the OCR was invoked and returned a text that is not blank, which is then
\* the returned text; in every other case the native text is returned.
C20_OcrOnlyForScannedShortPdf ==
    pc = "extracted" =>
        /\ result.ocr_invoked <=>
              (/\ aux.mime_type = PDF_MIME /\ aux.is_scanned
               /\ WordCount(NativeText) < 50)
        /\ result.ocr_used <=>
              (result.ocr_invoked /\ Strip(OcrFallback(aux).ocr_text, WS) # "")
        /\ result.ocr_used => result.text_content = OcrFallback(aux).ocr_text
        /\ ~result.ocr_used => result.text_content = NativeText

\* C20 happens: a scanned PDF with 49 native words was read by the OCR.
C20_Witness ==
    /\ pc = "extracted"
    /\ aux.is_scanned
    /\ aux.native = Repeat("a ", 49)
    /\ aux.ocr.pages = <<"text">>
    /\ result.ocr_invoked
    /\ result.ocr_used
    /\ result.text_content = "Halaman 1"

(***************************************************************************)
(* Specification of two concurrent uploads.  Each upload runs the file     *)
(* steps of extract_text_and_save as upload_document calls it              *)
(* (upload.py 95-102: base_dir is settings.TEMP_UPLOAD_PATH, no            *)
(* temp_file_name), then parses the text it holds and removes its text     *)
(* file.  The uploads are served by workers that share TEMP_UPLOAD_PATH;   *)
(* every file operation is one step.                                       *)
(*   aux.content[u], aux.mime_type[u]   the upload                         *)
(*   aux.files    the files of TEMP_UPLOAD_PATH: the temporary upload of   *)
(*                each extension and text.txt, NONE when absent            *)
(*   pc[u]        the position of upload u                                 *)
(*   result[u]    what upload u holds: text_content, text_path, status     *)
(***************************************************************************)
Uploads == {1, 2}

\* the documents uploaded, by their bytes, and the text their parser yields
DocText == [A |-> "Nomor: 12/AB.01.02\nPerihal: Undangan Rapat\n",
            B |-> "Nomor: 34/CD.05.06\nPerihal: Laporan Kegiatan\n",
            E |-> ""]

\* temp_dir / f"{name}{ext}" with name = TMP_UPLOAD_NAME
tmp_path(mime_type) == IF mime_type = PDF_MIME THEN "upload.pdf" ELSE "upload.docx"

InitUploads ==
    /\ text = ""
    /\ filename = NONE
    /\ aux \in [content : [Uploads -> DOMAIN DocText],
                mime_type : [Uploads -> {PDF_MIME, DOCX_MIME}],
                files : {[f \in {"upload.pdf", "upload.docx", "text.txt"} |-> NONE]}]
    /\ pc = [u \in Uploads |-> "start"]
    /\ result = [u \in Uploads |->
                    [text_content |-> "", text_path |-> NONE, status |-> "running"]]
    /\ calls = <<>>

\* tmp_path.write_bytes(content)
WriteTemp(u) ==
    /\ pc[u] = "start"
    /\ aux' = [aux EXCEPT !.files[tmp_path(aux.mime_type[u])] = aux.content[u]]
    /\ pc' = [pc EXCEPT ![u] = "written"]
    /\ calls' = Append(calls, <<u, "write_bytes">>)
    /\ UNCHANGED <<text, filename, result>>

\* extract_text_from_pdf(tmp_path) / extract_text_from_docx(tmp_path): the
\* parser reads the file that is at tmp_path now; a PDF that is gone makes
\* the parser raise, which ends the upload with an error, a DOCX that is
\* gone gives no text
ParseTemp(u) ==
    /\ pc[u] = "written"
    /\ LET found == aux.files[tmp_path(aux.mime_type[u])]
       IN  IF found = NONE /\ aux.mime_type[u] = PDF_MIME
           THEN /\ result' = [result EXCEPT ![u].status = "error"]
                /\ pc' = [pc EXCEPT ![u] = "done"]
           ELSE /\ result' = [result EXCEPT ![u].text_content =
                                 IF found = NONE THEN "" ELSE Strip(DocText[found], WS)]
                /\ pc' = [pc EXCEPT ![u] = "parsed"]
    /\ calls' = Append(calls, <<u, "parse">>)
    /\ UNCHANGED <<text, filename, aux>>

\* if text_content: (base_dir / TEXT_FILENAME).write_text(text_content)
WriteText(u) ==
    /\ pc[u] = "parsed"
    /\ IF result[u].text_content # ""
       THEN /\ aux' = [aux EXCEPT !.files["text.txt"] = result[u].text_content]
            /\ result' = [result EXCEPT ![u].text_path = "text.txt"]
       ELSE UNCHANGED <<aux, result>>
    /\ pc' = [pc EXCEPT ![u] = "texted"]
    /\ calls' = Append(calls, <<u, "write_text">>)
    /\ UNCHANGED <<text, filename>>

\* tmp_path.unlink(missing_ok=True)
UnlinkTemp(u) ==
    /\ pc[u] = "texted"
    /\ aux' = [aux EXCEPT !.files[tmp_path(aux.mime_type[u])] = NONE]
    /\ pc' = [pc EXCEPT ![u] = "extracted"]
    /\ calls' = Append(calls, <<u, "unlink">>)
    /\ UNCHANGED <<text, filename, result>>

\* the rest of upload_document: the metadata are parsed from the text the
\* upload holds, and its text file is removed (upload.py 105, 336-340)
FinishUpload(u) ==
    /\ pc[u] = "extracted"
    /\ aux' = IF result[u].text_path # NONE
              THEN [aux EXCEPT !.files["text.txt"] = NONE] ELSE aux
    /\ result' = [result EXCEPT ![u].status = "uploaded"]
    /\ pc' = [pc EXCEPT ![u] = "done"]
    /\ calls' = Append(calls, <<u, "finish">>)
    /\ UNCHANGED <<text, filename>>

NextUploads ==
    \E u \in Uploads :
        \/ WriteTemp(u)
        \/ ParseTemp(u)
        \/ WriteText(u)
        \/ UnlinkTemp(u)
        \/ FinishUpload(u)

SpecUploads == InitUploads /\ [][NextUploads]_vars

\* C18: in every interleaving of two uploads, no upload fails because of
\* the other, and the text each upload extracts is the text of its own
\* bytes.
C18_UploadsIndependent ==
    \A u \in Uploads :
        /\ result[u].status # "error"
        /\ pc[u] \in {"parsed", "texted", "extracted", "done"} =>
              result[u].text_content = Strip(DocText[aux.content[u]], WS)

(***************************************************************************)
(* Specification of the date extractor: extract_tanggal is applied to a    *)
(* text of at most MaxTanggalLines lines.                                  *)
(***************************************************************************)
MaxTanggalLines == 3

TanggalLines ==
    <<"Rapat 5 orang 2024", "31 Februari 2024", "Diterima 10-11-2023",
      "Jakarta, 12 Desember 2025", "Tanggal: 3 Mei 2024", "9 lembar 2021",
      "Berlaku 45-13-2022", "Agenda 131 Mei 2022", "Tahun 2020">>

InitTanggal ==
    /\ text \in Texts(TanggalLines, MaxTanggalLines)
    /\ filename = NONE
    /\ aux = <<>>
    /\ pc = "start"
    /\ result = NoDate
    /\ calls = <<>>

ExtractTanggal ==
    /\ pc = "start"
    /\ result' = extract_tanggal(text)
    /\ pc' = "extracted"
    /\ UNCHANGED <<text, filename, aux, calls>>

NextTanggal == ExtractTanggal

SpecTanggal == InitTanggal /\ [][NextTanggal]_vars

\* the places of T where (\d{1,2})\s+([A-Za-z]+)\s+(20\d{2}) matches
NamedMatches(T) == {i \in 1..Len(T) : DayMonthYearAt(T, i) # <<>>}

\* the places of T where a "<day> <word> 20xx" is written: the match starts
\* at the first digit of a number
NamedOccurrences(T) ==
    {i \in NamedMatches(T) : i = 1 \/ Ch(T, i - 1) \notin DIGIT}

\* those whose word is an Indonesian month name and whose day exists
ValidNamedOccurrences(T) ==
    {i \in NamedOccurrences(T) : NamedDate(DayMonthYearAt(T, i), 1) # NoDate}

\* the returned date is the date written at place i of T
DateWrittenAt(T, i) ==
    LET d == NamedDate(DayMonthYearAt(T, i), 1)
    IN  /\ result.year = d.year /\ result.month = d.month /\ result.day = d.day

\* C21 as stated: whenever the text contains a "<day> <Indonesian month
\* name> <20xx>" that is a real calendar date, the returned date comes from
\* such an occurrence, not from the numeric pattern or the year fallback.
C21_ValidOccurrenceNeverSuppressed ==
    pc = "extracted" =>
        LET holds(T) ==
                ValidNamedOccurrences(T) # {} =>
                    /\ result.pattern \in {1, 3}
                    /\ \E i \in ValidNamedOccurrences(T) : DateWrittenAt(T, i)
        IN  holds(_clean_text(text))

\* C21 amended: only the leftmost match of "<day> <word> 20xx" in the text is a
\* candidate of the first pattern.  When it is a real calendar date with an
\* Indonesian month name it is the returned date; when it is not, the first
\* pattern yields nothing and the date comes from the next patterns in
\* order (numeric, label, year), the label pattern being the only one that
\* can still return a named date.
C21_LeftmostCandidatePerPattern ==
    pc = "extracted" =>
        LET valid(T, i) == NamedDate(DayMonthYearAt(T, i), 1) # NoDate
            holds(T, occ) ==
                /\ (occ # {} /\ valid(T, MinOf(occ))) =>
                       (result.pattern = 1 /\ DateWrittenAt(T, MinOf(occ)))
                /\ result.pattern = 1 =>
                       (/\ occ # {} /\ valid(T, MinOf(occ))
                        /\ DateWrittenAt(T, MinOf(occ)))
                /\ result.pattern = 3 =>
                       (/\ DatePattern2(T) = NoDate
                        /\ \E i \in occ : valid(T, i) /\ DateWrittenAt(T, i))
                /\ result.pattern = 2 => result = DatePattern2(T)
                /\ result.pattern = 4 =>
                       (/\ DatePattern2(T) = NoDate /\ DatePattern3(T) = NoDate
                        /\ result.month = 1 /\ result.day = 1)
                /\ (occ = {} /\ DatePattern2(T) = NoDate) => result.pattern \in {0, 4}
        IN  holds(_clean_text(text), NamedMatches(_clean_text(text)))

\* C21 happens: the leftmost candidate is no date, a real named date
\* follows it, and the returned date comes from the numeric pattern or the
\* year fallback.
C21_Witness ==
    /\ pc = "extracted"
    /\ result.pattern \in {2, 4}
    /\ LET seen(T) == /\ ValidNamedOccurrences(T) # {}
                      /\ MinOf(NamedOccurrences(T)) \notin ValidNamedOccurrences(T)
       IN  seen(_clean_text(text))

(***************************************************************************)
(* Specification of the subject extractor: extract_perihal is applied to a *)
(* text of at most MaxPerihalLines lines, below nothing or a head that     *)
(* moves it into the lines of the keyword scan, and to a file name; aux    *)
(* keeps the strategy that produced the value.                             *)
(***************************************************************************)
MaxPerihalLines == 3

PerihalLines ==
    <<"Surat Perihal: Undangan rapat", "Hal: 12345", "", "warga RW 05",
      "Permohonan izin keramaian", "Kepada Yth. Lurah", "Nomor: 12/AB.01.02",
      "lanjutan isi surat">>

PerihalHeads == {"", Repeat("x\n", 5)}

PerihalFiles ==
    {NONE, "12-AB.01 1234.pdf", "77-XY.03 12-12-2025.pdf",
     "77-XY.03 Undangan Kerja Bakti.pdf"}

InitPerihal ==
    /\ text \in {h \o b : h \in PerihalHeads, b \in Texts(PerihalLines, MaxPerihalLines)}
    /\ filename \in PerihalFiles
    /\ aux = "none"
    /\ pc = "start"
    /\ result = NONE
    /\ calls = <<>>

ExtractPerihal ==
    /\ pc = "start"
    /\ result' = PerihalBy(text, filename)[1]
    /\ aux' = PerihalBy(text, filename)[2]
    /\ pc' = "extracted"
    /\ UNCHANGED <<text, filename, calls>>

NextPerihal == ExtractPerihal

SpecPerihal == InitPerihal /\ [][NextPerihal]_vars

\* C22: every value extract_perihal returns, whichever strategy produced
\* it, has passed the sanitizer: at least 5 characters, not purely numeric,
\* not date-shaped, not a registration number.
C22_EveryValueSanitized ==
    (pc = "extracted" /\ result # NONE) =>
        /\ Len(result) >= 5
        /\ \E i \in 1..Len(result) : Ch(result, i) \notin DIGIT
        /\ ~LooksLikeDate(result)
        /\ ~LooksLikeOcrNomor(result)
        /\ ~LooksLikeNomorTanggal(result)

\* the lines that follow the first Hal/Perihal word of the cleaned text
DirectLines(t) ==
    LET lines(remainder) == IF remainder = NONE THEN <<>> ELSE SplitLines(remainder)
    IN  lines(DirectRemainder(PreClean(t)))

\* line k of the direct scan is a content line: not blank, no label line,
\* no recipient marker
ContentLine(lines, k) ==
    LET is(line) == line # "" /\ _is_label_line(line) = NONE /\ ~IsRecipientStart(line)
    IN  is(Strip(lines[k], WS))

\* a blank line of the 10-line window that follows collected content and is
\* followed by a content line, no label line or recipient marker before it
BlankInsideSubject(lines) ==
    \E b \in 2..Len(lines) : \E c \in (b + 1)..Len(lines) :
        /\ c <= 10
        /\ Strip(lines[b], WS) = ""
        /\ \A k \in 1..(b - 1) : ContentLine(lines, k)
        /\ ContentLine(lines, c)
        /\ \A k \in (b + 1)..(c - 1) : Strip(lines[k], WS) = ""

\* C23 as stated: in the direct Hal/Perihal scan a blank line met after
\* collected content does not end the collection; the non-blank lines that
\* follow it, up to a label line, a recipient marker or the end of the
\* 10-line window, are joined into the subject.
C23_BlankLineDoesNotEndCollection ==
    (pc = "extracted" /\ aux = "direct-label") =>
        result = _sanitize_perihal(
                     Join(CollectPerihal_through_blanks(DirectLines(text), 1, FALSE), " "))

\* C23 amended: in the direct Hal/Perihal scan a blank line met after at
\* least one collected content line ends the collection: the subject is
\* the sanitized join of the content lines that precede the first blank
\* line, label line or recipient marker of the 10-line window.
C23_BlankLineEndsCollection ==
    (pc = "extracted" /\ aux = "direct-label") =>
        LET holds(lines) ==
                \E n \in 1..Len(lines) :
                    /\ n <= 10
                    /\ \A k \in 1..n : ContentLine(lines, k)
                    /\ (n = Len(lines) \/ n = 10 \/ ~ContentLine(lines, n + 1))
                    /\ result = _sanitize_perihal(
                                    Join([k \in 1..n |-> Strip(lines[k], WS)], " "))
        IN  holds(DirectLines(text))

\* C23 happens: the direct scan produced the subject from a text in which a
\* blank line separates the collected content from a further content line.
C23_Witness ==
    /\ pc = "extracted"
    /\ aux = "direct-label"
    /\ BlankInsideSubject(DirectLines(text))

(***************************************************************************)
(* Specification of the label-block extractor: extract_label_block_values  *)
(* is applied to a text of at most MaxLabelLines lines.                    *)
(***************************************************************************)
MaxLabelLines == 3

LabelLines ==
    <<"Nomor: 12/AB.01.02 Jakarta", "Nomor: Biasa", "Nomor", ": 655-HM.03.04 segera",
      "451/KS.02.00 Jakarta, 5 Mei 2024", "Sifat: Biasa", "7 lembar", "34/CD.02.01">>

InitLabel ==
    /\ text \in Texts(LabelLines, MaxLabelLines)
    /\ filename = NONE
    /\ aux = <<>>
    /\ pc = "start"
    /\ result = [k \in DOMAIN LABEL_ALIASES |-> NONE]
    /\ calls = <<>>

ExtractLabels ==
    /\ pc = "start"
    /\ result' = extract_label_block_values(text)
    /\ pc' = "extracted"
    /\ UNCHANGED <<text, filename, aux, calls>>

NextLabel == ExtractLabels

SpecLabel == InitLabel /\ [][NextLabel]_vars

\* C24: the value extract_label_block_values returns for the key nomor is
\* a single token without white space that starts with a digit and holds a
\* digit followed by "/" or "-", whichever path resolved it.
C24_NomorIsOneToken ==
    (pc = "extracted" /\ result.nomor # NONE) =>
        /\ \A i \in 1..Len(result.nomor) : Ch(result.nomor, i) \notin WS
        /\ Ch(result.nomor, 1) \in DIGIT
        /\ \E i \in 1..Len(result.nomor) :
               Ch(result.nomor, i) \in DIGIT /\ Ch(result.nomor, i + 1) \in SEP

(***************************************************************************)
(* Specification of the archive: upload_document, update_document and      *)
(* delete_document are served one after the other on one storage root and  *)
(* one database, and the clock of time.time() advances between requests.   *)
(*   aux.documents  the rows of the documents table, by id                 *)
(*   aux.files      the original files and text files under the storage    *)
(*                  root, by path relative to it, with their content       *)
(*   aux.metadata   the metadata.json files, by path, with their content   *)
(*   aux.clock      the seconds elapsed since the first request            *)
(*   result         the status of the last response                        *)
(*   calls          the requests served                                    *)
(* Text extraction and parsing are modelled by the specifications above:   *)
(* here an upload carries the text and the metadata parsed from it, and    *)
(* the slug that slugify_nomor gives for its number.                       *)
(***************************************************************************)
MaxRequests == 3

MaxClock == 1

\* int(time.time()) at the first request
StartTime == 1700000000

\* hashlib.sha256(content).hexdigest(): distinct contents have distinct digests
sha256(content) == "sha256(" \o content \o ")"

\* ALLOWED_MIME.get(file.content_type)
ALLOWED_MIME(content_type) ==
    IF content_type = PDF_MIME THEN "pdf"
    ELSE IF content_type = DOCX_MIME THEN "docx"
    ELSE NONE

\* extract_bulan(tanggal_surat)
extract_bulan(tanggal_surat) ==
    LET MONTHS == <<"Januari", "Februari", "Maret", "April", "Mei", "Juni",
                    "Juli", "Agustus", "September", "Oktober", "November", "Desember">>
        MONTHS_EN == <<"January", "February", "March", "April", "May", "June",
                       "July", "August", "September", "October", "November", "December">>
        tanggal_lower == Lower(tanggal_surat)
        found(names) == {i \in 1..12 : Contains(tanggal_lower, Lower(names[i]))}
    IN  IF ~Truthy(tanggal_surat) THEN NONE
        ELSE IF found(MONTHS) # {} THEN MONTHS[MinOf(found(MONTHS))]
        ELSE IF found(MONTHS_EN) # {} THEN MONTHS[MinOf(found(MONTHS_EN))]
        ELSE NONE

\* nomor_final of upload_document
nomor_final(parsed) == IF Truthy(parsed.nomor) THEN parsed.nomor ELSE "TANPA-NOMOR"

\* perihal_final of upload_document
perihal_final(parsed) ==
    IF parsed.jenis # "keluar" /\ Truthy(parsed.perihal) THEN parsed.perihal ELSE NONE

\* jenis_final of upload_document: the parsed type, else the shape of the
\* number, else "masuk"
jenis_final(parsed) ==
    LET fallback == IF CodeToken(nomor_final(parsed), "sm") THEN "masuk"
                    ELSE IF CodeToken(nomor_final(parsed), "sk") THEN "keluar"
                    ELSE "masuk"
        jenis == IF parsed.jenis = NONE THEN fallback ELSE parsed.jenis
    IN  IF jenis \in {"masuk", "keluar", "lainnya"} THEN jenis ELSE "masuk"

\* the file at path is written with content
WriteFile(files, path, content) == (path :> content) @@ files

\* the file at path is removed
Unlink(files, path) == [p \in (DOMAIN files) \ {path} |-> files[p]]

\* original_path of upload_document: original.<ext>, or original_<timestamp>.<ext>
\* when a file of that name with another content exists
original_name(files, dir, ext, digest, timestamp) ==
    IF (dir \o "/original." \o ext) \in DOMAIN files
           /\ sha256(files[dir \o "/original." \o ext]) # digest
    THEN "original_" \o Digits(timestamp) \o "." \o ext
    ELSE "original." \o ext

\* db.query(Document).filter(Document.file_hash == sha256).first(), 0 for None
duplicate_of(documents, digest) ==
    LET same == {i \in DOMAIN documents : documents[i].file_hash = digest}
    IN  IF same = {} THEN 0 ELSE MinOf(same)

\* the id of a new row: the rowid after the largest one
NewId(documents) == IF DOMAIN documents = {} THEN 1 ELSE MaxOf(DOMAIN documents) + 1

\* the uploads: the bytes of the file, its content type, the text read from
\* it, the metadata parsed from the text and the slug of the number
ArchiveParsed ==
    {[text_content |-> "Nomor: 12/AB.01.02 Perihal: Undangan Rapat",
      nomor |-> "12/AB.01.02", perihal |-> "Undangan Rapat", jenis |-> "masuk",
      tahun |-> 2024, tanggal_surat |-> "05 May 2024", slug |-> "12-ab-01-02"],
     [text_content |-> "KELURAHAN PELA MAMPANG Nomor: 12/AB.01.02",
      nomor |-> "12/AB.01.02", perihal |-> NONE, jenis |-> "keluar",
      tahun |-> 2024, tanggal_surat |-> "2024", slug |-> "12-ab-01-02"],
     [text_content |-> "",
      nomor |-> NONE, perihal |-> NONE, jenis |-> "lainnya",
      tahun |-> 0, tanggal_surat |-> NONE, slug |-> "tanpa-nomor"]}

ArchiveUploads ==
    [content : {"A", "B", "C"},
     content_type : {PDF_MIME, DOCX_MIME, "text/plain"},
     parsed : ArchiveParsed]

\* the bodies of PATCH requests, as the DocumentUpdate of documents.py reads
\* them: a confirm_sensitive in the body is not a field of that class
ArchiveUpdates ==
    [perihal : {NONE, "Revisi perihal"},
     nomor_surat : {NONE, "99/ZZ.09"},
     tahun : {0, 2025},
     jenis : {NONE, "masuk", "keluar"}]

InitArchive ==
    /\ text = ""
    /\ filename = NONE
    /\ aux = [documents |-> <<>>, files |-> <<>>, metadata |-> <<>>, clock |-> 0]
    /\ pc = "serving"
    /\ result = 0
    /\ calls = <<>>

\* the state after upload_document has stored the upload up
StoreUpload(up, ext) ==
    LET parsed == up.parsed
        digest == sha256(up.content)
        tahun_final == IF parsed.tahun > 0 THEN parsed.tahun ELSE 0
        bulan_final == extract_bulan(parsed.tanggal_surat)
        dir == base_dir(tahun_final, jenis_final(parsed), bulan_final, parsed.slug)
        name == original_name(aux.files, dir, ext, digest, StartTime + aux.clock)
        original_path == dir \o "/" \o name
        with_original == WriteFile(aux.files, original_path, up.content)
        metadata_path == dir \o "/metadata.json"
        doc == [tahun |-> tahun_final,
                jenis |-> jenis_final(parsed),
                nomor_surat |-> nomor_final(parsed),
                perihal |-> IF jenis_final(parsed) # "keluar"
                            THEN perihal_final(parsed) ELSE NONE,
                tanggal_surat |-> parsed.tanggal_surat,
                bulan |-> bulan_final,
                stored_path |-> original_path,
                metadata_path |-> metadata_path,
                mime_type |-> up.content_type,
                file_hash |-> digest]
    IN  [documents |-> (NewId(aux.documents) :> doc) @@ aux.documents,
         files |-> IF up.parsed.text_content # ""
                   THEN WriteFile(with_original, dir \o "/text.txt", up.parsed.text_content)
                   ELSE with_original,
         metadata |-> WriteFile(aux.metadata, metadata_path,
                          [file_original |-> name,
                           hash_sha256 |-> digest,
                           duplicate_of |-> duplicate_of(aux.documents, digest),
                           jenis |-> jenis_final(parsed),
                           nomor |-> nomor_final(parsed),
                           perihal |-> NONE]),
         clock |-> aux.clock]

\* POST /upload/
UploadDocument ==
    \E up \in ArchiveUploads :
        /\ Len(calls) < MaxRequests
        /\ IF ALLOWED_MIME(up.content_type) = NONE
           THEN /\ result' = 415
                /\ aux' = aux
           ELSE /\ result' = 200
                /\ aux' = StoreUpload(up, ALLOWED_MIME(up.content_type))
        /\ calls' = Append(calls, "upload")
        /\ UNCHANGED <<text, filename, pc>>

\* the row of doc_id after update_document has applied update_data
UpdatedDocument(doc, update_data) ==
    [doc EXCEPT !.nomor_surat = IF update_data.nomor_surat # NONE
                                THEN update_data.nomor_surat ELSE @,
                !.perihal = IF update_data.perihal # NONE THEN update_data.perihal ELSE @,
                !.jenis = IF update_data.jenis # NONE THEN update_data.jenis ELSE @]

\* PATCH /{doc_id}
UpdateDocument ==
    \E doc_id \in 1..MaxRequests, update_data \in ArchiveUpdates :
        /\ Len(calls) < MaxRequests
        /\ IF doc_id \notin DOMAIN aux.documents
           THEN /\ result' = 404
                /\ aux' = aux
           ELSE IF update_data.jenis # NONE /\ update_data.jenis # aux.documents[doc_id].jenis
           THEN /\ result' = 400
                /\ aux' = aux
           ELSE LET doc == UpdatedDocument(aux.documents[doc_id], update_data)
                    meta_path == doc.metadata_path
                IN  /\ result' = 200
                    /\ aux' = [aux EXCEPT
                          !.documents[doc_id] = doc,
                          !.metadata = IF meta_path \in DOMAIN aux.metadata
                                       THEN [@ EXCEPT ![meta_path].nomor = doc.nomor_surat,
                                                      ![meta_path].perihal = doc.perihal,
                                                      ![meta_path].jenis = doc.jenis]
                                       ELSE @]
        /\ calls' = Append(calls, "update")
        /\ UNCHANGED <<text, filename, pc>>

\* DELETE /{doc_id}
DeleteDocument ==
    \E doc_id \in 1..MaxRequests :
        /\ Len(calls) < MaxRequests
        /\ IF doc_id \notin DOMAIN aux.documents
           THEN /\ result' = 404
                /\ aux' = aux
           ELSE LET doc == aux.documents[doc_id]
                    other_refs == {i \in DOMAIN aux.documents :
                                      /\ aux.documents[i].stored_path = doc.stored_path
                                      /\ i # doc_id}
                IN  /\ result' = 204
                    /\ aux' = [aux EXCEPT
                          !.documents = [i \in (DOMAIN @) \ {doc_id} |-> @[i]],
                          !.files = IF other_refs = {} THEN Unlink(@, doc.stored_path) ELSE @,
                          !.metadata = IF other_refs = {}
                                       THEN Unlink(@, doc.metadata_path) ELSE @]
        /\ calls' = Append(calls, "delete")
        /\ UNCHANGED <<text, filename, pc>>

\* a second passes between two requests
Tick ==
    /\ aux.clock < MaxClock
    /\ aux' = [aux EXCEPT !.clock = @ + 1]
    /\ UNCHANGED <<text, filename, pc, result, calls>>

NextArchive ==
    \/ UploadDocument
    \/ UpdateDocument
    \/ DeleteDocument
    \/ Tick

SpecArchive == InitArchive /\ [][NextArchive]_vars

\* the documents stored
StoredDocuments == {aux.documents[i] : i \in DOMAIN aux.documents}

\* C27: after any sequence of upload_document and update_document
\* operations, no stored Document has jenis "keluar" together with a
\* perihal that is not null.
C27_NoPerihalOnKeluar ==
    (\A k \in 1..Len(calls) : calls[k] \in {"upload", "update"}) =>
        \A doc \in StoredDocuments : ~(doc.jenis = "keluar" /\ doc.perihal # NONE)

\* C29: after any sequence of upload_document and delete_document
\* operations, the file at stored_path and the file at metadata_path of
\* every remaining Document exist.
C29_SafeDelete ==
    (\A k \in 1..Len(calls) : calls[k] \in {"upload", "delete"}) =>
        \A doc \in StoredDocuments :
            /\ doc.stored_path \in DOMAIN aux.files
            /\ doc.metadata_path \in DOMAIN aux.metadata

\* C30: after any sequence of upload_document operations, the file at each
\* Document's stored_path has a SHA-256 equal to the Document's file_hash.
C30_StoredFileMatchesHash ==
    (\A k \in 1..Len(calls) : calls[k] = "upload") =>
        \A doc \in StoredDocuments :
            /\ doc.stored_path \in DOMAIN aux.files
            /\ sha256(aux.files[doc.stored_path]) = doc.file_hash

(***************************************************************************)
(* Specification of the normalizer: clean a raw text, then clean the       *)
(* cleaned text again.                                                     *)
(***************************************************************************)
MaxCleanLen == 4

CleanAlphabet == {"/", "-", "I", "O", "1", " ", "\n"}

RECURSIVE StringsUpTo(_, _)
StringsUpTo(A, n) ==
    IF n = 0 THEN {""}
    ELSE LET P == StringsUpTo(A, n - 1)
         IN  P \cup {s \o c : s \in P, c \in A}

InitClean ==
    /\ text \in StringsUpTo(CleanAlphabet, MaxCleanLen)
    /\ filename = NONE
    /\ aux = <<>>
    /\ pc = "start"
    /\ result = <<>>
    /\ calls = <<>>

\* t = _clean_text(raw)
CleanOnce ==
    /\ pc = "start"
    /\ result' = <<_clean_text(text)>>
    /\ calls' = Append(calls, "_clean_text")
    /\ pc' = "cleaned"
    /\ UNCHANGED <<text, filename, aux>>

\* _clean_text(t) on the already cleaned text, as every extractor does on
\* the text it is handed
CleanAgain ==
    /\ pc = "cleaned"
    /\ result' = Append(result, _clean_text(result[1]))
    /\ calls' = Append(calls, "_clean_text")
    /\ pc' = "recleaned"
    /\ UNCHANGED <<text, filename, aux>>

NextClean == CleanOnce \/ CleanAgain

SpecClean == InitClean /\ [][NextClean]_vars

\* C7: _clean_text is idempotent: cleaning a cleaned text changes nothing.
C7_CleanIdempotent == pc = "recleaned" => result[2] = result[1]

====
